---- MODULE Spec2Model ----
(***************************************************************************)
(* KaiSurfBeta: the page store (useDatabase), the settings store           *)
(* (useSettings) and the activity / module feedback log                    *)
(* (useModuleFeedback) of src/components/ModuleFeedbackPanel.tsx, with the *)
(* screens of src/unnamed/part_001 that call them and the URL bar of the   *)
(* browser screen.                                                         *)
(*                                                                         *)
(* Every async function is cut at its awaits: one action per segment       *)
(* between two awaits.  The statement or storage operation an await waits  *)
(* for takes effect in the step that resumes the function, so overlapping  *)
(* calls interleave at their await points, as they do on the JS event      *)
(* loop.                                                                   *)
(***************************************************************************)
EXTENDS Integers, Sequences, FiniteSets, TLC

\* ------------------------------------------------------------------ bounds
\* LIMIT 1000 of the retention statement (ModuleFeedbackPanel.tsx:494), scaled.
HistoryCap == 2
\* Seconds the CURRENT_TIMESTAMP clock advances in one run, from second 0.
MaxTime == 1
\* Times the process is started again in one run.
MaxRestarts == 1
\* Page-store calls made in one run; they may all overlap.
MaxCalls == 2
\* slice(0, 1000) of logActivity (ModuleFeedbackPanel.tsx:611), scaled.
ActivityCap == 2
\* slice(0, 500) of addModuleFeedback (ModuleFeedbackPanel.tsx:634), scaled.
FeedbackCap == 1
\* Milliseconds of Date.now() at which an entry is built in one run, from 1.
MaxEntries == 4
\* AsyncStorage requests of the log that are waiting to be served at once.
MaxPending == 3
\* Characters typed into the URL bar after the scheme, if one is typed.
MaxUrlLen == 2
\* Hours of a day: 24 * 60 * 60 * 1000 ms (history.tsx:64); time on the history
\* screen is counted in hours.
DayLength == 24
\* Navigation-state changes the WebView reports in one run.
MaxReports == 3
\* LIMIT 100 of getHistory (ModuleFeedbackPanel.tsx:507), scaled.
HistoryLimit == 1

UrlSeq == <<"u1", "u2", "u3">>
Urls == {UrlSeq[n] : n \in 1..Len(UrlSeq)}
\* The titles of the pages visited.
PageTitles == {"t1"}
\* The URLs the bookmark button is pressed on.
BookmarkUrls == {"u1", "u2"}
Titles == {"t1", "t2"}
Calls == 1..MaxCalls
\* The components that call useDatabase(): each holds its own `db` state.
DbUsers == {"browser", "bookmarksScreen", "historyScreen"}
\* An id is handed out per successful INSERT: the rows earlier runs left, then
\* one per call made.
RowIds == 1..(HistoryCap + MaxCalls)

VARIABLES
  db,              \* db[c]: useState `db` of consumer c's useDatabase()
  bookmarks,       \* rows of table bookmarks in browser.db
  history,         \* rows of table history in browser.db
  nextBookmarkId,  \* AUTOINCREMENT counter of bookmarks
  nextHistoryId,   \* AUTOINCREMENT counter of history
  now,             \* CURRENT_TIMESTAMP, in whole seconds
  perSecond,       \* history rows inserted during second `now`
  calls,           \* calls[k]: a page-store call, its position and locals
  storedSettings,  \* AsyncStorage item @koralai_settings: {} (null) or {text}
  settings,        \* settings[i]: useState `settings` of consumer i's useSettings()
  load,            \* load[i]: where consumer i's loadSettings() stands
  op,              \* the updateSettings / resetSettings call of the settings screen
  restarts,        \* times the process was started again
  storedActivity,  \* AsyncStorage item @koralai_activity_log: {} (null) or {text}
  storedFeedback,  \* AsyncStorage item @koralai_module_feedback: {} (null) or {text}
  activityLog,     \* activityLog[i]: useState of consumer i's useModuleFeedback()
  moduleFeedback,  \* moduleFeedback[i]: useState of consumer i's useModuleFeedback()
  logMounted,      \* logMounted[i]: consumer i's useEffect has run
  storageQueue,    \* AsyncStorage requests of the log, served in the order issued
  login,           \* the simulateKAiSurfLogin call: its position and its closure
  logClock,        \* Date.now() of the newest entry built, in milliseconds
  lastSettled,     \* the AsyncStorage request of the log served last, and how
                   \* the promise of the hook function awaiting it ended
  currentUrl,      \* useState `currentUrl` of BrowserScreen: the uri of the WebView
  urlInput,        \* useState `urlInput` of BrowserScreen: the text of the URL bar
  navigation,      \* useState canGoBack, canGoForward and loading of BrowserScreen
  injected,        \* the script handed to injectJavaScript last, "" if none
  reported,        \* history: how many navigation states the WebView has reported,
                   \* and the title and loading of the last one
  historyList,     \* useState `history` of HistoryScreen
  sections,        \* useState `sections` of HistoryScreen
  searchQuery,     \* useState `searchQuery` of HistoryScreen
  bookmarkList,    \* useState `bookmarks` of BookmarksScreen
  screenPc,        \* where the history and the bookmarks screen are: "off" before
                   \* the mount, "idle", or waiting for a statement to resolve
  device           \* the device: its clock, its time zone and how its JavaScript
                   \* engine reads a date text that is not in the ISO format

dbVars == <<db, bookmarks, history, nextBookmarkId, nextHistoryId, now, perSecond, calls>>
settingsVars == <<storedSettings, settings, load, op, restarts>>
logVars == <<storedActivity, storedFeedback, activityLog, moduleFeedback, logMounted,
             storageQueue, login, logClock, lastSettled>>
browserVars == <<currentUrl, urlInput, navigation, injected, reported>>
screenVars == <<historyList, sections, searchQuery, bookmarkList, screenPc, device>>
vars == <<dbVars, settingsVars, logVars, browserVars, screenVars>>
\* What the page store, the settings store and the log each leave alone.
notDb == <<settingsVars, logVars, browserVars, screenVars>>
notSettings == <<dbVars, logVars, browserVars, screenVars>>
notLog == <<dbVars, settingsVars, browserVars, screenVars>>

\* ---------------------------------------------------------- settings store
\* The components that call useSettings(): each holds its own `settings` state.
SettingsUsers == {"root", "browser", "settingsScreen"}
\* The one component that calls updateSettings and resetSettings.
Writer == "settingsScreen"

DEFAULT_SETTINGS ==
  [homepage |-> "https://www.google.com", searchEngine |-> "Google",
   privateBrowsing |-> FALSE, blockPopups |-> TRUE, clearDataOnExit |-> FALSE,
   darkMode |-> FALSE, showStatusBar |-> TRUE, javascriptEnabled |-> TRUE]

\* The settings whose values are strings; the others are booleans.
StringKeys == {"homepage", "searchEngine"}

\* What the settings screen passes to updateSettings: the fields it changed.
\* moduleFileSupport is the switch of the screen that is no key of the defaults.
PartialNames == {"homepage", "private", "fileSupport"}

SettingsPartial(name) ==
  CASE name = "homepage" -> [homepage |-> "https://example.com"]
    [] name = "private" -> [privateBrowsing |-> TRUE]
    [] name = "fileSupport" -> [moduleFileSupport |-> TRUE]

\* { ...a, ...b }
Merge(a, b) ==
  [k \in (DOMAIN a) \cup (DOMAIN b) |-> IF k \in DOMAIN b THEN b[k] ELSE a[k]]

\* JSON.stringify of a flat object: each key with the JSON text of its value.
Stringify(obj) ==
  [k \in DOMAIN obj |->
     IF k \in StringKeys THEN "\"" \o obj[k] \o "\""
     ELSE IF obj[k] THEN "true" ELSE "false"]

\* JSON.parse of such a text.
Unquote(text) == SubSeq(text, 2, Len(text) - 1)

Parse(text) ==
  [k \in DOMAIN text |->
     IF k \in StringKeys THEN Unquote(text[k]) ELSE text[k] = "true"]

NoOp == [kind |-> "none", pc |-> "idle", partial |-> "none",
         base |-> DEFAULT_SETTINGS, merged |-> DEFAULT_SETTINGS, result |-> "none"]

\* ------------------------------------------------------------- page store
Min(a, b) == IF a <= b THEN a ELSE b

RowsFor(table, url) == {r \in table : r.url = url}

NoCall ==
  [op |-> "none", pc |-> "idle", url |-> "", title |-> "", id |-> 0,
   changes |-> 0, stamp |-> 0, result |-> "none", solo |-> FALSE, rows |-> <<>>]

InFlight(k) == calls[k].pc \notin {"idle", "done"}

\* Call slots are used once each, in order: slot k holds the k-th call of the run.
CanBegin(k) == calls[k].pc = "idle" /\ (IF k = 1 THEN TRUE ELSE calls[k - 1].pc # "idle")

\* A call k starts: every call it overlaps stops being a call that ran alone.
Begin(k, rec) ==
  calls' = [j \in Calls |->
              IF j = k THEN [rec EXCEPT !.solo = \A i \in Calls \ {k} : ~InFlight(i)]
              ELSE IF InFlight(j) THEN [calls[j] EXCEPT !.solo = FALSE]
              ELSE calls[j]]

Finish(k, res) == [calls[k] EXCEPT !.pc = "done", !.result = res]

TypeOK ==
  /\ db \in [DbUsers -> BOOLEAN]
  /\ nextBookmarkId \in RowIds \cup {HistoryCap + MaxCalls + 1}
  /\ nextHistoryId \in RowIds \cup {HistoryCap + MaxCalls + 1}
  /\ now \in 0..MaxTime
  /\ perSecond \in 0..HistoryCap
  /\ \A r \in bookmarks : r.id \in RowIds /\ r.url \in Urls /\ r.title \in Titles
  /\ \A r \in history : r.id \in RowIds /\ r.url \in Urls /\ r.title \in Titles

\* ------------------------------------------------- activity / feedback log
\* The components that call useModuleFeedback() and are mounted by a screen:
\* each holds its own `activityLog` and `moduleFeedback` state.
LogUsers == {"browser", "settingsScreen"}
\* The consumer whose handlers record entries.
Recorder == "browser"
\* The consumer whose screen has the Clear Module Data button.
Clearer == "settingsScreen"

\* A slice that keeps the last n elements of the list.
SliceKeepsLast(list, n) == SubSeq(list, Len(list) - Min(Len(list), n) + 1, Len(list))

\* list.slice(0, n)
Slice(list, n) == SubSeq(list, 1, Min(Len(list), n))

\* newActivity of logActivity, built at millisecond t.  `id` stands for the
\* string of digits of t; `timestamp` is the same instant and `content` is
\* free text, neither is read by the hook.  module is "undefined" when the
\* caller passes no third argument.
ActivityEntry(t, activityType, module) ==
  [id |-> t, activity_type |-> activityType, module |-> module]

\* newFeedback of addModuleFeedback, built at millisecond t.  No caller passes
\* a fileReference.
FeedbackEntry(t, feedbackType) ==
  [module_name |-> "KAiSurf", feedback_type |-> feedbackType, timestamp |-> t]

\* [newActivity, ...activityLog].slice(0, 1000)
UpdatedLog(newActivity, log) == Slice(<<newActivity>> \o log, ActivityCap)

\* [newFeedback, ...moduleFeedback].slice(0, 500)
UpdatedFeedback(newFeedback, feedback) == Slice(<<newFeedback>> \o feedback, FeedbackCap)

\* The instants an entry can carry: those of this run and those of earlier runs.
EntryTimes == (0 - ActivityCap)..MaxEntries

Quote(s) == "\"" \o s \o "\""

\* JSON.stringify of an activity entry: a key whose value is undefined is left out.
StringifyActivity(e) ==
  IF e.module = "undefined"
  THEN [id |-> Quote(ToString(e.id)), activity_type |-> Quote(e.activity_type)]
  ELSE [id |-> Quote(ToString(e.id)), activity_type |-> Quote(e.activity_type),
        module |-> Quote(e.module)]

\* JSON.parse of such a text; reading a key that is absent gives undefined.
ParseActivity(text) ==
  [id |-> CHOOSE t \in EntryTimes : Quote(ToString(t)) = text.id,
   activity_type |-> Unquote(text.activity_type),
   module |-> IF "module" \in DOMAIN text THEN Unquote(text.module) ELSE "undefined"]

StringifyFeedback(e) ==
  [module_name |-> Quote(e.module_name), feedback_type |-> Quote(e.feedback_type),
   timestamp |-> Quote(ToString(e.timestamp))]

ParseFeedback(text) ==
  [module_name |-> Unquote(text.module_name), feedback_type |-> Unquote(text.feedback_type),
   timestamp |-> CHOOSE t \in EntryTimes : Quote(ToString(t)) = text.timestamp]

\* JSON.stringify(updatedLog), JSON.stringify(updatedFeedback) and their parses.
StringifyActivityLog(log) == [n \in 1..Len(log) |-> StringifyActivity(log[n])]

ParseActivityLog(text) == [n \in 1..Len(text) |-> ParseActivity(text[n])]

StringifyFeedbackLog(log) == [n \in 1..Len(log) |-> StringifyFeedback(log[n])]

ParseFeedbackLog(text) == [n \in 1..Len(text) |-> ParseFeedback(text[n])]

\* A request to AsyncStorage made by consumer `who`.  `alone` is a history field
\* of the removeItem requests: no other request was pending and no login was in
\* progress when the request was made.
Request(kind, key, who, text) ==
  [kind |-> kind, key |-> key, who |-> who, text |-> text, alone |-> FALSE]

NoLogin == [pc |-> "idle", activityLog |-> <<>>, moduleFeedback |-> <<>>, result |-> "none"]

\* Request r was served, with success or not, and the async function of the hook
\* that awaited it ended: its promise is fulfilled when the function returns,
\* rejected when an error leaves it.
Settled(r, ok, promise) ==
  [kind |-> r.kind, key |-> r.key, who |-> r.who, ok |-> ok, promise |-> promise]

NoSettled == [kind |-> "none", key |-> "none", who |-> "none", ok |-> TRUE, promise |-> "none"]

\* The two items outlive the process.  An earlier run leaves either nothing or
\* a list its own slice has kept within the cap, newest first.
PriorActivity ==
  {{}, {StringifyActivityLog([n \in 1..ActivityCap |->
                                ActivityEntry(1 - n, "PAGE_LOAD", "undefined")])}}

PriorFeedback ==
  {{}, {StringifyFeedbackLog([n \in 1..FeedbackCap |-> FeedbackEntry(1 - n, "SUCCESS")])}}

\* browser.db outlives the process: the history rows earlier runs left.  Such a
\* table holds at most HistoryCap rows, of distinct URLs, whose visit
\* timestamps lie before this run and do not decrease with the id.
PriorHistories ==
  {{[id |-> n, url |-> UrlSeq[n], title |-> "t1", visited_at |-> at[n]] : n \in 1..len} :
     len \in 0..Min(HistoryCap, Len(UrlSeq)),
     at \in {f \in [1..HistoryCap -> (0 - HistoryCap)..(0 - 1)] :
               \A m, n \in 1..HistoryCap : m <= n => f[m] <= f[n]}}

\* The bookmark rows earlier runs left: none, one, or two of distinct URLs,
\* added in the same second or a second apart.
PriorBookmarks ==
  {{}} \cup
  {{[id |-> 1, url |-> "u1", title |-> "t1", created_at |-> 0 - 2]} \cup more :
     more \in {{}, {[id |-> 2, url |-> "u2", title |-> "t2", created_at |-> 0 - 2]},
                   {[id |-> 2, url |-> "u2", title |-> "t2", created_at |-> 0 - 1]}}}

\* A device whose clock reads hour 0 of day 8, in the UTC zone, with an engine
\* that reads a date text without a zone as local time.
UtcDevice == [now |-> 8 * DayLength, zone |-> 0, parse |-> "local"]

\* The process starts on device d: every hook state is its useState initial
\* value; what is on disk (bookmark and history rows, the storage items) is
\* what earlier runs left.
InitOn(d, priorBookmarks, priorHistory, priorSettings, priorActivity, priorFeedback) ==
  /\ device = d
  /\ historyList = <<>>
  /\ sections = <<>>
  /\ searchQuery = ""
  /\ bookmarkList = <<>>
  /\ screenPc = [c \in {"historyScreen", "bookmarksScreen"} |-> "off"]
  /\ db = [c \in DbUsers |-> FALSE]
  /\ bookmarks = priorBookmarks
  /\ history = priorHistory
  /\ nextBookmarkId = Cardinality(priorBookmarks) + 1
  /\ nextHistoryId = Cardinality(priorHistory) + 1
  /\ now = 0
  /\ perSecond = 0
  /\ calls = [k \in Calls |-> NoCall]
  /\ storedSettings = priorSettings
  /\ settings = [i \in SettingsUsers |-> DEFAULT_SETTINGS]
  /\ load = [i \in SettingsUsers |-> "off"]
  /\ op = NoOp
  /\ restarts = 0
  /\ storedActivity = priorActivity
  /\ storedFeedback = priorFeedback
  /\ activityLog = [i \in LogUsers |-> <<>>]
  /\ moduleFeedback = [i \in LogUsers |-> <<>>]
  /\ logMounted = [i \in LogUsers |-> FALSE]
  /\ storageQueue = <<>>
  /\ login = NoLogin
  /\ logClock = 0
  /\ lastSettled = NoSettled
  /\ currentUrl = DEFAULT_SETTINGS.homepage
  /\ urlInput = DEFAULT_SETTINGS.homepage
  /\ navigation = [canGoBack |-> FALSE, canGoForward |-> FALSE, loading |-> FALSE]
  /\ injected = ""
  /\ reported = [n |-> 0, title |-> "undefined", loading |-> FALSE]

\* The process starts on a device in the UTC zone.
InitWith(priorBookmarks, priorHistory, priorSettings, priorActivity, priorFeedback) ==
  /\ InitOn(UtcDevice, priorBookmarks, priorHistory, priorSettings, priorActivity,
            priorFeedback)

InitBookmarks == \E b \in PriorBookmarks : InitWith(b, {}, {}, {}, {})

\* initializeDatabase resolves: the tables exist (no UNIQUE constraint on url)
\* and setDb(database).  db[c] is FALSE while `db` is null; when the open or
\* the CREATE fails the catch only logs and `db` stays null for good, which is
\* the behaviour in which this step is never taken.
InitializeDatabase(c) ==
  /\ ~db[c]
  /\ db' = [db EXCEPT ![c] = TRUE]
  /\ UNCHANGED <<bookmarks, history, nextBookmarkId, nextHistoryId, now, perSecond, calls>>
  /\ UNCHANGED notDb

\* The wall clock passes to the next second.
Tick ==
  /\ now < MaxTime
  /\ now' = now + 1
  /\ perSecond' = 0
  /\ UNCHANGED <<db, bookmarks, history, nextBookmarkId, nextHistoryId, calls>>
  /\ UNCHANGED notDb

\* addBookmark, up to its first await: the db guard, then the SELECT is issued.
AddBookmark(k, url, title) ==
  /\ CanBegin(k)
  /\ IF ~db["browser"]
       THEN calls' = [calls EXCEPT ![k] =
              [NoCall EXCEPT !.op = "addBookmark", !.url = url, !.title = title,
                             !.pc = "done", !.result = "NotInitialized"]]
       ELSE Begin(k, [NoCall EXCEPT !.op = "addBookmark", !.url = url,
                                    !.title = title, !.pc = "select"])
  /\ UNCHANGED <<db, bookmarks, history, nextBookmarkId, nextHistoryId, now, perSecond>>
  /\ UNCHANGED notDb

\* SELECT id FROM bookmarks WHERE url = ? resolves; `if (existing) throw`.
AddBookmarkSelectNoCheck(k) ==
  /\ calls[k].op = "addBookmark" /\ calls[k].pc = "select"
  /\ \E ok \in BOOLEAN :
       calls' = [calls EXCEPT ![k] =
         IF ~ok THEN Finish(k, "SqlError") ELSE [calls[k] EXCEPT !.pc = "insert"]]
  /\ UNCHANGED <<db, bookmarks, history, nextBookmarkId, nextHistoryId, now, perSecond>>
  /\ UNCHANGED notDb

AddBookmarkSelect(k) ==
  /\ calls[k].op = "addBookmark" /\ calls[k].pc = "select"
  /\ \E ok \in BOOLEAN :
       LET found == RowsFor(bookmarks, calls[k].url) IN
       calls' = [calls EXCEPT ![k] =
         IF ~ok THEN Finish(k, "SqlError")
         ELSE IF found # {}
           THEN Finish(k, "DuplicateEntry")
           ELSE [calls[k] EXCEPT !.pc = "insert"]]
  /\ UNCHANGED <<db, bookmarks, history, nextBookmarkId, nextHistoryId, now, perSecond>>
  /\ UNCHANGED notDb

\* INSERT INTO bookmarks (url, title) resolves: id and created_at are the store's.
AddBookmarkInsert(k) ==
  /\ calls[k].op = "addBookmark" /\ calls[k].pc = "insert"
  /\ \E ok \in BOOLEAN :
       IF ok
         THEN /\ bookmarks' = bookmarks \cup
                   {[id |-> nextBookmarkId, url |-> calls[k].url,
                     title |-> calls[k].title, created_at |-> now]}
              /\ nextBookmarkId' = nextBookmarkId + 1
              /\ calls' = [calls EXCEPT ![k] = Finish(k, "ok")]
         ELSE /\ calls' = [calls EXCEPT ![k] = Finish(k, "SqlError")]
              /\ UNCHANGED <<bookmarks, nextBookmarkId>>
  /\ UNCHANGED <<db, history, nextHistoryId, now, perSecond>>
  /\ UNCHANGED notDb

\* removeBookmark, up to its await: the db guard, then the DELETE is issued.
RemoveBookmark(k, id) ==
  /\ CanBegin(k)
  /\ IF ~db["bookmarksScreen"]
       THEN calls' = [calls EXCEPT ![k] =
              [NoCall EXCEPT !.op = "removeBookmark", !.id = id,
                             !.pc = "done", !.result = "NotInitialized"]]
       ELSE Begin(k, [NoCall EXCEPT !.op = "removeBookmark", !.id = id, !.pc = "delete"])
  /\ UNCHANGED <<db, bookmarks, history, nextBookmarkId, nextHistoryId, now, perSecond>>
  /\ UNCHANGED notDb

\* A removeBookmark that throws when the DELETE has removed no row.
RemoveBookmarkDeleteMissingThrows(k) ==
  /\ calls[k].op = "removeBookmark" /\ calls[k].pc = "delete"
  /\ \E ok \in BOOLEAN :
       IF ok
         THEN /\ bookmarks' = {r \in bookmarks : r.id # calls[k].id}
              /\ calls' = [calls EXCEPT ![k] =
                   [Finish(k, IF \E r \in bookmarks : r.id = calls[k].id
                              THEN "ok" ELSE "NotFound") EXCEPT
                      !.changes = Cardinality({r \in bookmarks : r.id = calls[k].id})]]
         ELSE /\ calls' = [calls EXCEPT ![k] = Finish(k, "SqlError")]
              /\ UNCHANGED bookmarks
  /\ UNCHANGED <<db, history, nextBookmarkId, nextHistoryId, now, perSecond>>
  /\ UNCHANGED notDb

\* DELETE FROM bookmarks WHERE id = ? resolves.
RemoveBookmarkDelete(k) ==
  /\ calls[k].op = "removeBookmark" /\ calls[k].pc = "delete"
  /\ \E ok \in BOOLEAN :
       IF ok
         THEN /\ bookmarks' = {r \in bookmarks : r.id # calls[k].id}
              /\ calls' = [calls EXCEPT ![k] =
                   [Finish(k, "ok") EXCEPT
                      !.changes = Cardinality({r \in bookmarks : r.id = calls[k].id})]]
         ELSE /\ calls' = [calls EXCEPT ![k] = Finish(k, "SqlError")]
              /\ UNCHANGED bookmarks
  /\ UNCHANGED <<db, history, nextBookmarkId, nextHistoryId, now, perSecond>>
  /\ UNCHANGED notDb

\* A listing of the rows oldest first.
OldestFirstRows(table, field) ==
  {rows \in [1..Cardinality(table) -> table] :
     /\ \A m, n \in 1..Cardinality(table) : m # n => rows[m] # rows[n]
     /\ \A m, n \in 1..Cardinality(table) : m <= n => rows[m][field] <= rows[n][field]}

\* SELECT * FROM table ORDER BY field DESC: every row once, none before a row
\* with a later timestamp; rows of equal timestamp in an order SQL leaves open.
NewestFirst(table, field) ==
  {rows \in [1..Cardinality(table) -> table] :
     /\ \A m, n \in 1..Cardinality(table) : m # n => rows[m] # rows[n]
     /\ \A m, n \in 1..Cardinality(table) : m <= n => rows[m][field] >= rows[n][field]}

\* getBookmarks, up to its await: `if (!db) return []`, then the SELECT is issued.
GetBookmarks(k) ==
  /\ CanBegin(k)
  /\ IF ~db["bookmarksScreen"]
       THEN calls' = [calls EXCEPT ![k] =
              [NoCall EXCEPT !.op = "getBookmarks", !.pc = "done", !.result = "skipped"]]
       ELSE Begin(k, [NoCall EXCEPT !.op = "getBookmarks", !.pc = "select"])
  /\ UNCHANGED <<db, bookmarks, history, nextBookmarkId, nextHistoryId, now, perSecond>>
  /\ UNCHANGED notDb

\* SELECT * FROM bookmarks ORDER BY created_at DESC resolves and its rows are
\* returned; an error is caught, logged, and [] is returned.
GetBookmarksSelect(k) ==
  /\ calls[k].op = "getBookmarks" /\ calls[k].pc = "select"
  /\ \E ok \in BOOLEAN :
       IF ok
         THEN \E rows \in NewestFirst(bookmarks, "created_at") :
                calls' = [calls EXCEPT ![k] = [Finish(k, "ok") EXCEPT !.rows = rows]]
         ELSE calls' = [calls EXCEPT ![k] = Finish(k, "swallowed")]
  /\ UNCHANGED <<db, bookmarks, history, nextBookmarkId, nextHistoryId, now, perSecond>>
  /\ UNCHANGED notDb

BookmarksNext ==
  \/ \E c \in {"browser", "bookmarksScreen"} : InitializeDatabase(c)
  \/ Tick
  \/ \E k \in Calls, u \in BookmarkUrls, t \in Titles : AddBookmark(k, u, t)
  \/ \E k \in Calls : AddBookmarkSelect(k)
  \/ \E k \in Calls : AddBookmarkInsert(k)
  \/ \E k \in Calls, id \in RowIds : RemoveBookmark(k, id)
  \/ \E k \in Calls : RemoveBookmarkDelete(k)
  \/ \E k \in Calls : GetBookmarks(k)
  \/ \E k \in Calls : GetBookmarksSelect(k)

SpecBookmarks == InitBookmarks /\ [][BookmarksNext]_vars

\* An addToHistory that throws when `db` is null, as addBookmark does.
AddToHistoryThrowsNotReady(k, url, title) ==
  /\ CanBegin(k)
  /\ IF ~db["browser"]
       THEN calls' = [calls EXCEPT ![k] =
              [NoCall EXCEPT !.op = "addToHistory", !.url = url, !.title = title,
                             !.pc = "done", !.result = "NotInitialized"]]
       ELSE Begin(k, [NoCall EXCEPT !.op = "addToHistory", !.url = url,
                                    !.title = title, !.pc = "delete"])
  /\ UNCHANGED <<db, bookmarks, history, nextBookmarkId, nextHistoryId, now, perSecond>>
  /\ UNCHANGED notDb

\* addToHistory, up to its first await: `if (!db) return`, then the DELETE is issued.
AddToHistory(k, url, title) ==
  /\ CanBegin(k)
  /\ IF ~db["browser"]
       THEN calls' = [calls EXCEPT ![k] =
              [NoCall EXCEPT !.op = "addToHistory", !.url = url, !.title = title,
                             !.pc = "done", !.result = "skipped"]]
       ELSE Begin(k, [NoCall EXCEPT !.op = "addToHistory", !.url = url,
                                    !.title = title, !.pc = "delete"])
  /\ UNCHANGED <<db, bookmarks, history, nextBookmarkId, nextHistoryId, now, perSecond>>
  /\ UNCHANGED notDb

\* DELETE FROM history WHERE url = ? resolves; an error is caught and logged.
AddToHistoryDeleteSkipped(k) ==
  /\ calls[k].op = "addToHistory" /\ calls[k].pc = "delete"
  /\ \E ok \in BOOLEAN :
       calls' = [calls EXCEPT ![k] =
         IF ok THEN [calls[k] EXCEPT !.pc = "insert"] ELSE Finish(k, "swallowed")]
  /\ UNCHANGED <<db, bookmarks, history, nextBookmarkId, nextHistoryId, now, perSecond>>
  /\ UNCHANGED notDb

AddToHistoryDelete(k) ==
  /\ calls[k].op = "addToHistory" /\ calls[k].pc = "delete"
  /\ \E ok \in BOOLEAN :
       IF ok
         THEN /\ history' = history \ RowsFor(history, calls[k].url)
              /\ calls' = [calls EXCEPT ![k] =
                   [calls[k] EXCEPT !.pc = "insert",
                      !.changes = Cardinality(RowsFor(history, calls[k].url))]]
         ELSE /\ calls' = [calls EXCEPT ![k] = Finish(k, "swallowed")]
              /\ UNCHANGED history
  /\ UNCHANGED <<db, bookmarks, nextBookmarkId, nextHistoryId, now, perSecond>>
  /\ UNCHANGED notDb

\* INSERT INTO history (url, title) resolves: visited_at is CURRENT_TIMESTAMP,
\* which has a resolution of one second.  The engine is taken to insert at most
\* HistoryCap history rows within one second of that clock (the code's
\* thousand), so that the scaled cap keeps its proportion to the clock.
AddToHistoryInsert(k) ==
  /\ calls[k].op = "addToHistory" /\ calls[k].pc = "insert"
  /\ \E ok \in BOOLEAN :
       IF ok
         THEN /\ perSecond < HistoryCap
              /\ history' = history \cup
                   {[id |-> nextHistoryId, url |-> calls[k].url,
                     title |-> calls[k].title, visited_at |-> now]}
              /\ nextHistoryId' = nextHistoryId + 1
              /\ perSecond' = perSecond + 1
              /\ calls' = [calls EXCEPT ![k] =
                   [calls[k] EXCEPT !.pc = "retain", !.stamp = now]]
         ELSE /\ calls' = [calls EXCEPT ![k] = Finish(k, "swallowed")]
              /\ UNCHANGED <<history, nextHistoryId, perSecond>>
  /\ UNCHANGED <<db, bookmarks, nextBookmarkId, now>>
  /\ UNCHANGED notDb

\* SELECT id FROM history ORDER BY visited_at DESC LIMIT n: the ids of n rows
\* none of which is older than a row left out; rows of equal visited_at come in
\* an order SQL leaves open.
OldestFirst(table, n) ==
  {K \in SUBSET table :
     /\ Cardinality(K) = Min(n, Cardinality(table))
     /\ \A kept \in K, gone \in table \ K : kept.visited_at <= gone.visited_at}

MostRecent(table, n) ==
  {K \in SUBSET table :
     /\ Cardinality(K) = Min(n, Cardinality(table))
     /\ \A kept \in K, gone \in table \ K : kept.visited_at >= gone.visited_at}

\* DELETE FROM history WHERE id NOT IN (... LIMIT 1000) resolves.
AddToHistoryRetain(k) ==
  /\ calls[k].op = "addToHistory" /\ calls[k].pc = "retain"
  /\ \E ok \in BOOLEAN :
       IF ok
         THEN /\ \E K \in MostRecent(history, HistoryCap) : history' = K
              /\ calls' = [calls EXCEPT ![k] = Finish(k, "ok")]
         ELSE /\ calls' = [calls EXCEPT ![k] = Finish(k, "swallowed")]
              /\ UNCHANGED history
  /\ UNCHANGED <<db, bookmarks, nextBookmarkId, nextHistoryId, now, perSecond>>
  /\ UNCHANGED notDb

HistoryNext ==
  \/ InitializeDatabase("browser")
  \/ Tick
  \/ \E k \in Calls, u \in Urls, t \in PageTitles : AddToHistory(k, u, t)
  \/ \E k \in Calls : AddToHistoryDelete(k)
  \/ \E k \in Calls : AddToHistoryInsert(k)
  \/ \E k \in Calls : AddToHistoryRetain(k)

InitHistory == \E h \in PriorHistories : InitWith({}, h, {}, {}, {})

SpecHistory == InitHistory /\ [][HistoryNext]_vars

\* removeHistoryItem, up to its await: the db guard, then the DELETE is issued.
RemoveHistoryItem(k, id) ==
  /\ CanBegin(k)
  /\ IF ~db["historyScreen"]
       THEN calls' = [calls EXCEPT ![k] =
              [NoCall EXCEPT !.op = "removeHistoryItem", !.id = id,
                             !.pc = "done", !.result = "NotInitialized"]]
       ELSE Begin(k, [NoCall EXCEPT !.op = "removeHistoryItem", !.id = id, !.pc = "delete"])
  /\ UNCHANGED <<db, bookmarks, history, nextBookmarkId, nextHistoryId, now, perSecond>>
  /\ UNCHANGED notDb

\* DELETE FROM history WHERE id = ? resolves; an error is logged and thrown on.
RemoveHistoryItemDelete(k) ==
  /\ calls[k].op = "removeHistoryItem" /\ calls[k].pc = "delete"
  /\ \E ok \in BOOLEAN :
       IF ok
         THEN /\ history' = {r \in history : r.id # calls[k].id}
              /\ calls' = [calls EXCEPT ![k] =
                   [Finish(k, "ok") EXCEPT
                      !.changes = Cardinality({r \in history : r.id = calls[k].id})]]
         ELSE /\ calls' = [calls EXCEPT ![k] = Finish(k, "SqlError")]
              /\ UNCHANGED history
  /\ UNCHANGED <<db, bookmarks, nextBookmarkId, nextHistoryId, now, perSecond>>
  /\ UNCHANGED notDb

\* A clearHistory that returns when `db` is null, as addToHistory does.
ClearHistorySkipsNotReady(k) ==
  /\ CanBegin(k)
  /\ IF ~db["historyScreen"]
       THEN calls' = [calls EXCEPT ![k] =
              [NoCall EXCEPT !.op = "clearHistory", !.pc = "done", !.result = "skipped"]]
       ELSE Begin(k, [NoCall EXCEPT !.op = "clearHistory", !.pc = "delete"])
  /\ UNCHANGED <<db, bookmarks, history, nextBookmarkId, nextHistoryId, now, perSecond>>
  /\ UNCHANGED notDb

\* clearHistory, up to its await: the db guard, then the DELETE is issued.
ClearHistory(k) ==
  /\ CanBegin(k)
  /\ IF ~db["historyScreen"]
       THEN calls' = [calls EXCEPT ![k] =
              [NoCall EXCEPT !.op = "clearHistory", !.pc = "done",
                             !.result = "NotInitialized"]]
       ELSE Begin(k, [NoCall EXCEPT !.op = "clearHistory", !.pc = "delete"])
  /\ UNCHANGED <<db, bookmarks, history, nextBookmarkId, nextHistoryId, now, perSecond>>
  /\ UNCHANGED notDb

\* DELETE FROM history resolves; an error is logged and thrown on.
ClearHistoryDelete(k) ==
  /\ calls[k].op = "clearHistory" /\ calls[k].pc = "delete"
  /\ \E ok \in BOOLEAN :
       IF ok
         THEN /\ history' = {}
              /\ calls' = [calls EXCEPT ![k] =
                   [Finish(k, "ok") EXCEPT !.changes = Cardinality(history)]]
         ELSE /\ calls' = [calls EXCEPT ![k] = Finish(k, "SqlError")]
              /\ UNCHANGED history
  /\ UNCHANGED <<db, bookmarks, nextBookmarkId, nextHistoryId, now, perSecond>>
  /\ UNCHANGED notDb

\* The history screen at work on the rows earlier visits left.
HistoryScreenNext ==
  \/ InitializeDatabase("historyScreen")
  \/ \E k \in Calls, id \in RowIds : RemoveHistoryItem(k, id)
  \/ \E k \in Calls : RemoveHistoryItemDelete(k)
  \/ \E k \in Calls : ClearHistory(k)
  \/ \E k \in Calls : ClearHistoryDelete(k)

SpecHistoryScreen == InitHistory /\ [][HistoryScreenNext]_vars

\* ------------------------------------------------- settings store: actions
StoredText == CHOOSE text \in storedSettings : TRUE

\* `loading` of consumer i: true from useState(true) until the finally block.
Loading(i) == load[i] \notin {"done", "fellBack"}

\* A component that calls useSettings() mounts: useState(DEFAULT_SETTINGS), and
\* the effect starts loadSettings().  RootLayout renders the screens only once
\* its own `loading` is false.
MountSettings(i) ==
  /\ load[i] = "off"
  /\ i # "root" => ~Loading("root")
  /\ load' = [load EXCEPT ![i] = "get"]
  /\ UNCHANGED <<storedSettings, settings, op, restarts>>
  /\ UNCHANGED notSettings

\* { ...DEFAULT_SETTINGS, ...JSON.parse(storedSettings) }
LoadedFrom(text) == Merge(DEFAULT_SETTINGS, Parse(text))

\* loadSettings: AsyncStorage.getItem resolves.  A stored text is parsed and
\* spread over the defaults; with no item the defaults are saved next; a read
\* error falls back to the defaults (load[i] = "fellBack": the catch ran).
LoadSettingsGetKnownKeysOnly(i) ==
  /\ load[i] = "get"
  /\ \E ok \in BOOLEAN :
       IF ~ok
         THEN /\ settings' = [settings EXCEPT ![i] = DEFAULT_SETTINGS]
              /\ load' = [load EXCEPT ![i] = "fellBack"]
         ELSE IF storedSettings # {}
           THEN /\ settings' = [settings EXCEPT ![i] =
                     [k \in DOMAIN DEFAULT_SETTINGS |-> LoadedFrom(StoredText)[k]]]
                /\ load' = [load EXCEPT ![i] = "done"]
           ELSE /\ load' = [load EXCEPT ![i] = "saveDefaults"]
                /\ UNCHANGED settings
  /\ UNCHANGED <<storedSettings, op, restarts>>
  /\ UNCHANGED notSettings

LoadSettingsGet(i) ==
  /\ load[i] = "get"
  /\ \E ok \in BOOLEAN :
       IF ~ok
         THEN /\ settings' = [settings EXCEPT ![i] = DEFAULT_SETTINGS]
              /\ load' = [load EXCEPT ![i] = "fellBack"]
         ELSE IF storedSettings # {}
           THEN /\ settings' = [settings EXCEPT ![i] = LoadedFrom(StoredText)]
                /\ load' = [load EXCEPT ![i] = "done"]
           ELSE /\ load' = [load EXCEPT ![i] = "saveDefaults"]
                /\ UNCHANGED settings
  /\ UNCHANGED <<storedSettings, op, restarts>>
  /\ UNCHANGED notSettings

\* loadSettings, first run: saveSettingsToStorage(DEFAULT_SETTINGS) resolves, or
\* throws into the catch, which sets the defaults.
LoadSettingsSaveDefaults(i) ==
  /\ load[i] = "saveDefaults"
  /\ \E ok \in BOOLEAN :
       IF ok
         THEN /\ storedSettings' = {Stringify(DEFAULT_SETTINGS)}
              /\ load' = [load EXCEPT ![i] = "done"]
              /\ UNCHANGED settings
         ELSE /\ settings' = [settings EXCEPT ![i] = DEFAULT_SETTINGS]
              /\ load' = [load EXCEPT ![i] = "fellBack"]
              /\ UNCHANGED storedSettings
  /\ UNCHANGED <<op, restarts>>
  /\ UNCHANGED notSettings

\* updateSettings, up to its await: the merge over the caller's `settings`.
UpdateSettings(name) ==
  /\ load[Writer] # "off"
  /\ op.pc # "save"
  /\ op' = [kind |-> "update", pc |-> "save", partial |-> name,
            base |-> settings[Writer],
            merged |-> Merge(settings[Writer], SettingsPartial(name)),
            result |-> "none"]
  /\ UNCHANGED <<storedSettings, settings, load, restarts>>
  /\ UNCHANGED notSettings

\* updateSettings: saveSettingsToStorage(updatedSettings) resolves and
\* setSettings(updatedSettings), or it throws and the error is thrown on.
UpdateSettingsSavePublishFirst ==
  /\ op.kind = "update" /\ op.pc = "save"
  /\ \E ok \in BOOLEAN :
       /\ settings' = [settings EXCEPT ![Writer] = op.merged]
       /\ IF ok
            THEN /\ storedSettings' = {Stringify(op.merged)}
                 /\ op' = [op EXCEPT !.pc = "done", !.result = "ok"]
            ELSE /\ op' = [op EXCEPT !.pc = "done", !.result = "SaveFailed"]
                 /\ UNCHANGED storedSettings
  /\ UNCHANGED <<load, restarts>>
  /\ UNCHANGED notSettings

UpdateSettingsSaveStale ==
  /\ op.kind = "update" /\ op.pc = "save"
  /\ \E ok \in BOOLEAN :
       IF ok
         THEN /\ storedSettings' = {Stringify(settings[Writer])}
              /\ settings' = [settings EXCEPT ![Writer] = op.merged]
              /\ op' = [op EXCEPT !.pc = "done", !.result = "ok"]
         ELSE /\ op' = [op EXCEPT !.pc = "done", !.result = "SaveFailed"]
              /\ UNCHANGED <<storedSettings, settings>>
  /\ UNCHANGED <<load, restarts>>
  /\ UNCHANGED notSettings

UpdateSettingsSave ==
  /\ op.kind = "update" /\ op.pc = "save"
  /\ \E ok \in BOOLEAN :
       IF ok
         THEN /\ storedSettings' = {Stringify(op.merged)}
              /\ settings' = [settings EXCEPT ![Writer] = op.merged]
              /\ op' = [op EXCEPT !.pc = "done", !.result = "ok"]
         ELSE /\ op' = [op EXCEPT !.pc = "done", !.result = "SaveFailed"]
              /\ UNCHANGED <<storedSettings, settings>>
  /\ UNCHANGED <<load, restarts>>
  /\ UNCHANGED notSettings

\* resetSettings, up to its await.
ResetSettings ==
  /\ load[Writer] # "off"
  /\ op.pc # "save"
  /\ op' = [kind |-> "reset", pc |-> "save", partial |-> "none",
            base |-> settings[Writer], merged |-> DEFAULT_SETTINGS, result |-> "none"]
  /\ UNCHANGED <<storedSettings, settings, load, restarts>>
  /\ UNCHANGED notSettings

\* resetSettings: saveSettingsToStorage(DEFAULT_SETTINGS) resolves and
\* setSettings(DEFAULT_SETTINGS), or it throws and the error is thrown on.
ResetSettingsSave ==
  /\ op.kind = "reset" /\ op.pc = "save"
  /\ \E ok \in BOOLEAN :
       IF ok
         THEN /\ storedSettings' = {Stringify(DEFAULT_SETTINGS)}
              /\ settings' = [settings EXCEPT ![Writer] = DEFAULT_SETTINGS]
              /\ op' = [op EXCEPT !.pc = "done", !.result = "ok"]
         ELSE /\ op' = [op EXCEPT !.pc = "done", !.result = "SaveFailed"]
              /\ UNCHANGED <<storedSettings, settings>>
  /\ UNCHANGED <<load, restarts>>
  /\ UNCHANGED notSettings

\* The process ends and is started again: the hook states are gone, the
\* storage item stays.
RestartSettings ==
  /\ restarts < MaxRestarts
  /\ restarts' = restarts + 1
  /\ settings' = [i \in SettingsUsers |-> DEFAULT_SETTINGS]
  /\ load' = [i \in SettingsUsers |-> "off"]
  /\ op' = NoOp
  /\ UNCHANGED storedSettings
  /\ UNCHANGED notSettings

SettingsNext ==
  \/ \E i \in SettingsUsers : MountSettings(i)
  \/ \E i \in SettingsUsers : LoadSettingsGet(i)
  \/ \E i \in SettingsUsers : LoadSettingsSaveDefaults(i)
  \/ \E name \in PartialNames : UpdateSettings(name)
  \/ UpdateSettingsSave
  \/ ResetSettings
  \/ ResetSettingsSave
  \/ RestartSettings

\* The settings item an earlier release of the application may have left: a
\* text without the keys added since (line 317: "Merge with defaults to ensure
\* all settings are present").
PriorSettings == {{}, {Stringify([homepage |-> "https://example.com"])}}

InitSettings == \E prior \in PriorSettings : InitWith({}, {}, prior, {}, {})

SpecSettings == InitSettings /\ [][SettingsNext]_vars

\* ------------------------------------------- activity / feedback log: actions
\* useModuleFeedback() of consumer i runs its effect: loadActivityLog() and
\* loadModuleFeedback() each issue their getItem.
MountLog(i) ==
  /\ ~logMounted[i]
  /\ Len(storageQueue) + 2 <= MaxPending
  /\ logMounted' = [logMounted EXCEPT ![i] = TRUE]
  /\ storageQueue' = storageQueue \o <<Request("get", "activity", i, <<>>),
                                       Request("get", "feedback", i, <<>>)>>
  /\ UNCHANGED <<storedActivity, storedFeedback, activityLog, moduleFeedback, login, logClock, lastSettled>>
  /\ UNCHANGED notLog

\* loadActivityLog resumes after its getItem: a stored text is parsed and set;
\* a read error is caught and logged.
LoadActivityLogResume ==
  /\ storageQueue # <<>>
  /\ Head(storageQueue).kind = "get"
  /\ Head(storageQueue).key = "activity"
  /\ \E ok \in BOOLEAN :
       /\ activityLog' =
            IF ok /\ storedActivity # {}
            THEN [activityLog EXCEPT ![Head(storageQueue).who] =
                    ParseActivityLog(CHOOSE text \in storedActivity : TRUE)]
            ELSE activityLog
       /\ lastSettled' = Settled(Head(storageQueue), ok, "fulfilled")
  /\ storageQueue' = Tail(storageQueue)
  /\ UNCHANGED <<storedActivity, storedFeedback, moduleFeedback, logMounted, login, logClock>>
  /\ UNCHANGED notLog

\* loadModuleFeedback resumes after its getItem.
LoadModuleFeedbackResume ==
  /\ storageQueue # <<>>
  /\ Head(storageQueue).kind = "get"
  /\ Head(storageQueue).key = "feedback"
  /\ \E ok \in BOOLEAN :
       /\ moduleFeedback' =
            IF ok /\ storedFeedback # {}
            THEN [moduleFeedback EXCEPT ![Head(storageQueue).who] =
                    ParseFeedbackLog(CHOOSE text \in storedFeedback : TRUE)]
            ELSE moduleFeedback
       /\ lastSettled' = Settled(Head(storageQueue), ok, "fulfilled")
  /\ storageQueue' = Tail(storageQueue)
  /\ UNCHANGED <<storedActivity, storedFeedback, activityLog, logMounted, login, logClock>>
  /\ UNCHANGED notLog

\* A logActivity that sets the state only once its setItem has resolved: the
\* call issues the setItem and leaves the state as it is.
LogActivityPersistsFirst ==
  /\ logMounted[Recorder]
  /\ logClock + (IF login.pc = "delay" THEN 1 ELSE 0) < MaxEntries
  /\ Len(storageQueue) < MaxPending
  /\ LET newActivity == ActivityEntry(logClock + 1, "PAGE_LOAD", "undefined")
         updatedLog == UpdatedLog(newActivity, activityLog[Recorder])
     IN storageQueue' = Append(storageQueue,
          Request("set", "activity", Recorder, StringifyActivityLog(updatedLog)))
  /\ logClock' = logClock + 1
  /\ UNCHANGED <<storedActivity, storedFeedback, activityLog, moduleFeedback, logMounted,
                 login, lastSettled>>
  /\ UNCHANGED notLog

\* The browser screen reports a finished page load: logActivity('PAGE_LOAD', ...)
\* of the current render builds the entry, sets the state and then issues the
\* setItem it awaits.  (The millisecond a login in progress needs for its
\* result is left to it.)
LogActivity ==
  /\ logMounted[Recorder]
  /\ logClock + (IF login.pc = "delay" THEN 1 ELSE 0) < MaxEntries
  /\ Len(storageQueue) < MaxPending
  /\ LET newActivity == ActivityEntry(logClock + 1, "PAGE_LOAD", "undefined")
         updatedLog == UpdatedLog(newActivity, activityLog[Recorder])
     IN /\ activityLog' = [activityLog EXCEPT ![Recorder] = updatedLog]
        /\ storageQueue' = Append(storageQueue,
             Request("set", "activity", Recorder, StringifyActivityLog(updatedLog)))
  /\ logClock' = logClock + 1
  /\ UNCHANGED <<storedActivity, storedFeedback, moduleFeedback, logMounted, login, lastSettled>>
  /\ UNCHANGED notLog

\* A setItem of logActivity or addModuleFeedback is served: the item is
\* written, or the write fails and the catch of the caller logs the error.
SetItemResolveRethrows ==
  /\ storageQueue # <<>>
  /\ Head(storageQueue).kind = "set"
  /\ \E ok \in BOOLEAN :
       /\ IF ok /\ Head(storageQueue).key = "activity"
          THEN storedActivity' = {Head(storageQueue).text} /\ UNCHANGED storedFeedback
          ELSE IF ok
          THEN storedFeedback' = {Head(storageQueue).text} /\ UNCHANGED storedActivity
          ELSE UNCHANGED <<storedActivity, storedFeedback>>
       /\ lastSettled' = Settled(Head(storageQueue), ok, IF ok THEN "fulfilled" ELSE "rejected")
  /\ storageQueue' = Tail(storageQueue)
  /\ UNCHANGED <<activityLog, moduleFeedback, logMounted, login, logClock>>
  /\ UNCHANGED notLog

SetItemResolve ==
  /\ storageQueue # <<>>
  /\ Head(storageQueue).kind = "set"
  /\ \E ok \in BOOLEAN :
       /\ IF ok /\ Head(storageQueue).key = "activity"
          THEN storedActivity' = {Head(storageQueue).text} /\ UNCHANGED storedFeedback
          ELSE IF ok
          THEN storedFeedback' = {Head(storageQueue).text} /\ UNCHANGED storedActivity
          ELSE UNCHANGED <<storedActivity, storedFeedback>>
       /\ lastSettled' = Settled(Head(storageQueue), ok, "fulfilled")
  /\ storageQueue' = Tail(storageQueue)
  /\ UNCHANGED <<activityLog, moduleFeedback, logMounted, login, logClock>>
  /\ UNCHANGED notLog

\* simulateKAiSurfLogin(roamingId) runs up to its await of the timer: the
\* attempt is logged by the logActivity of the render the call was made in,
\* and that render's logActivity and addModuleFeedback stay the ones the rest
\* of the call uses.  (No statement of the try block throws for a string
\* argument, so the catch is not reached.)
SimulateKAiSurfLogin ==
  /\ logMounted[Recorder]
  /\ login.pc = "idle"
  /\ logClock + 2 <= MaxEntries
  /\ Len(storageQueue) < MaxPending
  /\ LET newActivity == ActivityEntry(logClock + 1, "KAISURF_LOGIN_ATTEMPT", "KAiSurf")
         updatedLog == UpdatedLog(newActivity, activityLog[Recorder])
     IN /\ activityLog' = [activityLog EXCEPT ![Recorder] = updatedLog]
        /\ storageQueue' = Append(storageQueue,
             Request("set", "activity", Recorder, StringifyActivityLog(updatedLog)))
  /\ login' = [pc |-> "delay", activityLog |-> activityLog[Recorder],
               moduleFeedback |-> moduleFeedback[Recorder], result |-> "none"]
  /\ logClock' = logClock + 1
  /\ UNCHANGED <<storedActivity, storedFeedback, moduleFeedback, logMounted, lastSettled>>
  /\ UNCHANGED notLog

\* A resumption that gives no feedback entry on the failure outcome.
SimulateKAiSurfLoginResumeSilentFailure ==
  /\ login.pc = "delay"
  /\ logClock < MaxEntries
  /\ Len(storageQueue) + 2 <= MaxPending
  /\ \E success \in BOOLEAN :
       LET newActivity ==
             ActivityEntry(logClock + 1,
               IF success THEN "KAISURF_LOGIN_SUCCESS" ELSE "KAISURF_LOGIN_FAILURE", "KAiSurf")
           newFeedback == FeedbackEntry(logClock + 1, "SUCCESS")
           updatedLog == UpdatedLog(newActivity, login.activityLog)
           updatedFeedback == UpdatedFeedback(newFeedback, login.moduleFeedback)
       IN /\ activityLog' = [activityLog EXCEPT ![Recorder] = updatedLog]
          /\ moduleFeedback' =
               IF success THEN [moduleFeedback EXCEPT ![Recorder] = updatedFeedback]
               ELSE moduleFeedback
          /\ storageQueue' = storageQueue \o
               <<Request("set", "activity", Recorder, StringifyActivityLog(updatedLog))>> \o
               (IF success
                THEN <<Request("set", "feedback", Recorder,
                               StringifyFeedbackLog(updatedFeedback))>>
                ELSE <<>>)
          /\ login' = [login EXCEPT !.pc = "idle",
                                    !.result = IF success THEN "success" ELSE "failure"]
  /\ logClock' = logClock + 1
  /\ UNCHANGED <<storedActivity, storedFeedback, logMounted, lastSettled>>
  /\ UNCHANGED notLog

\* The timer fires: the result is drawn, then logActivity and addModuleFeedback
\* of the captured render record it, in the same millisecond, and the call
\* returns.
SimulateKAiSurfLoginResume ==
  /\ login.pc = "delay"
  /\ logClock < MaxEntries
  /\ Len(storageQueue) + 2 <= MaxPending
  /\ \E success \in BOOLEAN :
       LET newActivity ==
             ActivityEntry(logClock + 1,
               IF success THEN "KAISURF_LOGIN_SUCCESS" ELSE "KAISURF_LOGIN_FAILURE", "KAiSurf")
           newFeedback == FeedbackEntry(logClock + 1, IF success THEN "SUCCESS" ELSE "ERROR")
           updatedLog == UpdatedLog(newActivity, login.activityLog)
           updatedFeedback == UpdatedFeedback(newFeedback, login.moduleFeedback)
       IN /\ activityLog' = [activityLog EXCEPT ![Recorder] = updatedLog]
          /\ moduleFeedback' = [moduleFeedback EXCEPT ![Recorder] = updatedFeedback]
          /\ storageQueue' = storageQueue \o
               <<Request("set", "activity", Recorder, StringifyActivityLog(updatedLog)),
                 Request("set", "feedback", Recorder, StringifyFeedbackLog(updatedFeedback))>>
          /\ login' = [login EXCEPT !.pc = "idle",
                                    !.result = IF success THEN "success" ELSE "failure"]
  /\ logClock' = logClock + 1
  /\ UNCHANGED <<storedActivity, storedFeedback, logMounted, lastSettled>>
  /\ UNCHANGED notLog

\* Clear Module Data is confirmed on the settings screen: clearActivityLog()
\* empties the state and issues the removeItem it awaits.
ClearActivityLog ==
  /\ logMounted[Clearer]
  /\ Len(storageQueue) < MaxPending
  /\ activityLog' = [activityLog EXCEPT ![Clearer] = <<>>]
  /\ storageQueue' = Append(storageQueue,
       [Request("remove", "activity", Clearer, <<>>)
          EXCEPT !.alone = (storageQueue = <<>> /\ login.pc = "idle")])
  /\ UNCHANGED <<storedActivity, storedFeedback, moduleFeedback, logMounted, login, logClock,
                 lastSettled>>
  /\ UNCHANGED notLog

\* clearActivityLog resumes after its removeItem (an error is caught and
\* logged) and returns; the handler goes on to clearModuleFeedback(), which
\* empties the state and issues its removeItem.
ClearActivityLogResume ==
  /\ storageQueue # <<>>
  /\ Head(storageQueue).kind = "remove"
  /\ Head(storageQueue).key = "activity"
  /\ \E ok \in BOOLEAN :
       /\ storedActivity' = IF ok THEN {} ELSE storedActivity
       /\ lastSettled' = Settled(Head(storageQueue), ok, "fulfilled")
  /\ moduleFeedback' = [moduleFeedback EXCEPT ![Head(storageQueue).who] = <<>>]
  /\ storageQueue' = Append(Tail(storageQueue),
       [Request("remove", "feedback", Head(storageQueue).who, <<>>)
          EXCEPT !.alone = (Tail(storageQueue) = <<>> /\ login.pc = "idle")])
  /\ UNCHANGED <<storedFeedback, activityLog, logMounted, login, logClock>>
  /\ UNCHANGED notLog

\* clearModuleFeedback resumes after its removeItem.
ClearModuleFeedbackResume ==
  /\ storageQueue # <<>>
  /\ Head(storageQueue).kind = "remove"
  /\ Head(storageQueue).key = "feedback"
  /\ \E ok \in BOOLEAN :
       /\ storedFeedback' = IF ok THEN {} ELSE storedFeedback
       /\ lastSettled' = Settled(Head(storageQueue), ok, "fulfilled")
  /\ storageQueue' = Tail(storageQueue)
  /\ UNCHANGED <<storedActivity, activityLog, moduleFeedback, logMounted, login, logClock>>
  /\ UNCHANGED notLog

LogNext ==
  \/ \E i \in LogUsers : MountLog(i)
  \/ LoadActivityLogResume
  \/ LoadModuleFeedbackResume
  \/ LogActivity
  \/ SetItemResolve
  \/ SimulateKAiSurfLogin
  \/ SimulateKAiSurfLoginResume
  \/ ClearActivityLog
  \/ ClearActivityLogResume
  \/ ClearModuleFeedbackResume

InitLog == \E a \in PriorActivity, f \in PriorFeedback : InitWith({}, {}, {}, a, f)

SpecLog == InitLog /\ [][LogNext]_vars

\* ------------------------------------------------- browser screen: URL bar
\* The characters typed after the scheme: a letter, the dot and the space.
UrlChars == {"a", ".", " "}
\* What the text typed starts with: nothing, the two schemes the screen knows,
\* and one of them in capitals.
UrlStarts == {"", "http://", "https://", "HTTP://"}

RECURSIVE TextsUpTo(_)
TextsUpTo(n) ==
  IF n = 0 THEN {""}
  ELSE TextsUpTo(n - 1) \cup {t \o c : t \in TextsUpTo(n - 1), c \in UrlChars}

\* The texts onChangeText hands to setUrlInput.
UrlInputs == {start \o rest : start \in UrlStarts, rest \in TextsUpTo(MaxUrlLen)}

\* String.prototype.trim, on texts whose only white space is the space.
RECURSIVE TrimStart(_)
TrimStart(text) ==
  IF text # "" /\ SubSeq(text, 1, 1) = " " THEN TrimStart(SubSeq(text, 2, Len(text)))
  ELSE text

RECURSIVE TrimEnd(_)
TrimEnd(text) ==
  IF text # "" /\ SubSeq(text, Len(text), Len(text)) = " "
  THEN TrimEnd(SubSeq(text, 1, Len(text) - 1))
  ELSE text

Trim(text) == TrimEnd(TrimStart(text))

\* text.startsWith(prefix)
StartsWith(text, prefix) ==
  /\ Len(text) >= Len(prefix)
  /\ SubSeq(text, 1, Len(prefix)) = prefix

\* url.match(/^https?:\/\//): the pattern has no i flag.
MatchesScheme(url) == StartsWith(url, "http://") \/ StartsWith(url, "https://")

\* url.includes(c) for a one-character c
Includes(url, c) == \E n \in 1..Len(url) : SubSeq(url, n, n) = c

\* encodeURIComponent leaves A-Z a-z 0-9 - _ . ! ~ * ' ( ) as they are and
\* writes every other character as the %XX of its UTF-8 bytes.
UriUnreserved == {"a", "h", "p", "s", "t", "H", "P", "T", "."}

EscapeOf(c) ==
  CASE c = " " -> "%20"
    [] c = "/" -> "%2F"
    [] c = ":" -> "%3A"

RECURSIVE EncodeURIComponent(_)
EncodeURIComponent(text) ==
  IF text = "" THEN ""
  ELSE (IF SubSeq(text, 1, 1) \in UriUnreserved
        THEN SubSeq(text, 1, 1)
        ELSE EscapeOf(SubSeq(text, 1, 1)))
       \o EncodeURIComponent(SubSeq(text, 2, Len(text)))

\* A normalisation that takes every text with a dot for a domain.
NormalizeUrlDotOnly(url) ==
  IF MatchesScheme(url) THEN url
  ELSE IF Includes(url, ".") THEN "https://" \o url
  ELSE "https://www.google.com/search?q=" \o EncodeURIComponent(url)

\* handleUrlSubmit, lines 62-71, on the trimmed text: "Add protocol if missing".
NormalizeUrl(url) ==
  IF MatchesScheme(url) THEN url
  ELSE IF Includes(url, ".") /\ ~Includes(url, " ") THEN "https://" \o url
  ELSE "https://www.google.com/search?q=" \o EncodeURIComponent(url)

\* The URL bar is edited: onChangeText={setUrlInput}.  The edit starts from the
\* URL of the page shown, or from a text that trimmed to nothing, and `text` is
\* what the bar holds when the edit ends.
OnChangeText(text) ==
  /\ logMounted[Recorder]
  /\ urlInput = currentUrl \/ Trim(urlInput) = ""
  /\ urlInput' = text
  /\ UNCHANGED <<currentUrl, navigation, injected, reported>>
  /\ UNCHANGED <<dbVars, settingsVars, logVars, screenVars>>

\* handleUrlSubmit: nothing happens for a text that trims to nothing; otherwise
\* the normalised URL becomes the uri of the WebView and is assigned to
\* window.location.href by an injected script, logActivity('NAVIGATION', ...)
\* of this render records the navigation, and the effect on currentUrl copies
\* a changed URL into the URL bar.
HandleUrlSubmit ==
  /\ logMounted[Recorder]
  /\ IF Trim(urlInput) = ""
       THEN UNCHANGED <<browserVars, logVars>>
       ELSE LET url == NormalizeUrl(Trim(urlInput))
                newActivity == ActivityEntry(logClock + 1, "NAVIGATION", "undefined")
                updatedLog == UpdatedLog(newActivity, activityLog[Recorder])
            IN /\ logClock + (IF login.pc = "delay" THEN 1 ELSE 0) < MaxEntries
               /\ Len(storageQueue) < MaxPending
               /\ currentUrl' = url
               /\ urlInput' = IF url # currentUrl THEN url ELSE urlInput
               /\ injected' = "window.location.href = '" \o url \o "';"
               /\ activityLog' = [activityLog EXCEPT ![Recorder] = updatedLog]
               /\ storageQueue' = Append(storageQueue,
                    Request("set", "activity", Recorder, StringifyActivityLog(updatedLog)))
               /\ logClock' = logClock + 1
               /\ UNCHANGED <<navigation, reported, storedActivity, storedFeedback,
                              moduleFeedback, logMounted, login, lastSettled>>
  /\ UNCHANGED <<dbVars, settingsVars, screenVars>>

\* The browser screen with its URL bar in use.
UrlBarNext ==
  \/ MountLog(Recorder)
  \/ LoadActivityLogResume
  \/ LoadModuleFeedbackResume
  \/ \E text \in UrlInputs : OnChangeText(text)
  \/ HandleUrlSubmit
  \/ SetItemResolve

InitUrlBar == InitWith({}, {}, {}, {}, {})

SpecUrlBar == InitUrlBar /\ [][UrlBarNext]_vars

\* ------------------------------------- browser screen: navigation states
\* The pages the WebView goes to and the titles it reports for them: none yet
\* (undefined), the empty title and a title.
NavUrls == {"u1", "u2"}
NavTitles == {"undefined", "", "t1"}

\* The navState objects handed to onNavigationStateChange.
NavStates ==
  [url : NavUrls, title : NavTitles, loading : BOOLEAN,
   canGoBack : BOOLEAN, canGoForward : BOOLEAN]

\* `navState.title &&`: undefined and the empty string are falsy.
Truthy(title) == title \notin {"undefined", ""}

\* A handler that does not look at navState.loading.
OnNavigationStateChangeWhileLoading(k, navState) ==
  /\ logMounted[Recorder]
  /\ reported.n < MaxReports
  /\ reported' = [n |-> reported.n + 1, title |-> navState.title,
                  loading |-> navState.loading]
  /\ navigation' = [canGoBack |-> navState.canGoBack,
                    canGoForward |-> navState.canGoForward,
                    loading |-> navState.loading]
  /\ currentUrl' = navState.url
  /\ urlInput' = IF navState.url # currentUrl THEN navState.url ELSE urlInput
  /\ UNCHANGED injected
  /\ IF Truthy(navState.title)
       THEN LET newActivity == ActivityEntry(logClock + 1, "PAGE_LOAD", "undefined")
                updatedLog == UpdatedLog(newActivity, activityLog[Recorder])
            IN /\ CanBegin(k)
               /\ logClock + (IF login.pc = "delay" THEN 1 ELSE 0) < MaxEntries
               /\ Len(storageQueue) < MaxPending
               /\ IF ~db["browser"]
                    THEN calls' = [calls EXCEPT ![k] =
                           [NoCall EXCEPT !.op = "addToHistory", !.url = navState.url,
                                          !.title = navState.title,
                                          !.pc = "done", !.result = "skipped"]]
                    ELSE Begin(k, [NoCall EXCEPT !.op = "addToHistory",
                                                 !.url = navState.url,
                                                 !.title = navState.title,
                                                 !.pc = "delete"])
               /\ activityLog' = [activityLog EXCEPT ![Recorder] = updatedLog]
               /\ storageQueue' = Append(storageQueue,
                    Request("set", "activity", Recorder, StringifyActivityLog(updatedLog)))
               /\ logClock' = logClock + 1
               /\ UNCHANGED <<db, bookmarks, history, nextBookmarkId, nextHistoryId, now,
                              perSecond>>
               /\ UNCHANGED <<storedActivity, storedFeedback, moduleFeedback, logMounted,
                              login, lastSettled>>
       ELSE UNCHANGED <<dbVars, logVars>>
  /\ UNCHANGED <<settingsVars, screenVars>>

\* onNavigationStateChange(navState): the four states are set and the effect on
\* currentUrl copies a changed URL into the URL bar; for a page that has a
\* title and is not loading, addToHistory(url, title) runs up to its first
\* await and logActivity('PAGE_LOAD', ...) of this render builds its entry,
\* sets the state and issues its setItem.  Neither call is awaited.
OnNavigationStateChange(k, navState) ==
  /\ logMounted[Recorder]
  /\ reported.n < MaxReports
  /\ reported' = [n |-> reported.n + 1, title |-> navState.title,
                  loading |-> navState.loading]
  /\ navigation' = [canGoBack |-> navState.canGoBack,
                    canGoForward |-> navState.canGoForward,
                    loading |-> navState.loading]
  /\ currentUrl' = navState.url
  /\ urlInput' = IF navState.url # currentUrl THEN navState.url ELSE urlInput
  /\ UNCHANGED injected
  /\ IF Truthy(navState.title) /\ ~navState.loading
       THEN LET newActivity == ActivityEntry(logClock + 1, "PAGE_LOAD", "undefined")
                updatedLog == UpdatedLog(newActivity, activityLog[Recorder])
            IN /\ CanBegin(k)
               /\ logClock + (IF login.pc = "delay" THEN 1 ELSE 0) < MaxEntries
               /\ Len(storageQueue) < MaxPending
               /\ IF ~db["browser"]
                    THEN calls' = [calls EXCEPT ![k] =
                           [NoCall EXCEPT !.op = "addToHistory", !.url = navState.url,
                                          !.title = navState.title,
                                          !.pc = "done", !.result = "skipped"]]
                    ELSE Begin(k, [NoCall EXCEPT !.op = "addToHistory",
                                                 !.url = navState.url,
                                                 !.title = navState.title,
                                                 !.pc = "delete"])
               /\ activityLog' = [activityLog EXCEPT ![Recorder] = updatedLog]
               /\ storageQueue' = Append(storageQueue,
                    Request("set", "activity", Recorder, StringifyActivityLog(updatedLog)))
               /\ logClock' = logClock + 1
               /\ UNCHANGED <<db, bookmarks, history, nextBookmarkId, nextHistoryId, now,
                              perSecond>>
               /\ UNCHANGED <<storedActivity, storedFeedback, moduleFeedback, logMounted,
                              login, lastSettled>>
       ELSE UNCHANGED <<dbVars, logVars>>
  /\ UNCHANGED <<settingsVars, screenVars>>

\* The browser screen with pages loading in its WebView.
NavigationNext ==
  \/ InitializeDatabase("browser")
  \/ MountLog(Recorder)
  \/ LoadActivityLogResume
  \/ LoadModuleFeedbackResume
  \/ \E k \in Calls, navState \in NavStates : OnNavigationStateChange(k, navState)
  \/ \E k \in Calls : AddToHistoryDelete(k)
  \/ \E k \in Calls : AddToHistoryInsert(k)
  \/ \E k \in Calls : AddToHistoryRetain(k)
  \/ SetItemResolve

InitNavigation == InitWith({}, {}, {}, {}, {})

SpecNavigation == InitNavigation /\ [][NavigationNext]_vars

\* ------------------------------------------- browser screen: with settings
\* BrowserScreen mounts (RootLayout renders it once its own `loading` is
\* false): useSettings() gives useState(DEFAULT_SETTINGS) and starts
\* loadSettings(); currentUrl is useState(settings.homepage ||
\* 'https://www.google.com') of this first render, the uri of the WebView, and
\* the effect on currentUrl copies it into the URL bar.
MountBrowser ==
  /\ load["browser"] = "off"
  /\ ~Loading("root")
  /\ load' = [load EXCEPT !["browser"] = "get"]
  /\ currentUrl' = IF settings["browser"].homepage # ""
                     THEN settings["browser"].homepage
                     ELSE "https://www.google.com"
  /\ urlInput' = currentUrl'
  /\ UNCHANGED <<navigation, injected, reported>>
  /\ UNCHANGED <<storedSettings, settings, op, restarts>>
  /\ UNCHANGED <<dbVars, logVars, screenVars>>

\* The settings item an earlier run left: none, or one with a homepage and
\* private browsing switched on.
PriorBrowserSettings ==
  {{}, {Stringify(Merge(DEFAULT_SETTINGS,
                        [homepage |-> "https://example.com", privateBrowsing |-> TRUE]))}}

\* The navState objects of one page with a title and without back and forward
\* entries.
BrowserNavStates ==
  {navState \in NavStates :
     /\ navState.url = "u1"
     /\ navState.title = "t1"
     /\ ~navState.canGoBack /\ ~navState.canGoForward}

\* The application from its start, with the browser screen loading pages.
BrowserNext ==
  \/ MountSettings("root")
  \/ MountBrowser
  \/ \E i \in {"root", "browser"} : LoadSettingsGet(i)
  \/ \E i \in {"root", "browser"} : LoadSettingsSaveDefaults(i)
  \/ (load["browser"] # "off" /\ InitializeDatabase("browser"))
  \/ (load["browser"] # "off" /\ MountLog(Recorder))
  \/ LoadActivityLogResume
  \/ LoadModuleFeedbackResume
  \/ \E k \in Calls, navState \in BrowserNavStates : OnNavigationStateChange(k, navState)
  \/ \E k \in Calls : AddToHistoryDelete(k)
  \/ \E k \in Calls : AddToHistoryInsert(k)
  \/ \E k \in Calls : AddToHistoryRetain(k)
  \/ SetItemResolve

InitBrowser == \E prior \in PriorBrowserSettings : InitWith({}, {}, prior, {}, {})

SpecBrowser == InitBrowser /\ [][BrowserNext]_vars

\* ------------------------------------------------ history screen: sections
\* The devices: the clock reads 01:00 or 13:00 UTC of day 8; the zone is 5 hours
\* behind UTC, UTC or 5 hours ahead; the engine reads 'YYYY-MM-DD HH:MM:SS'
\* (the text SQLite gives for CURRENT_TIMESTAMP, a UTC time) as a local time,
\* or does not read it at all and gives an invalid Date.
Devices ==
  [now : {8 * DayLength + 1, 8 * DayLength + 13}, zone : {0 - 5, 0, 5},
   parse : {"local", "invalid"}]

\* The hours (UTC) at which the pages of the history were visited.
VisitHours ==
  {8 * DayLength + h : h \in {1, 0 - 1, 0 - 6, 0 - 20, 0 - 30, 0 - 200}}

\* The parts of a history row that depend on its id: every URL once.
PageOf(id) ==
  [url |-> "https://u" \o ToString(id),
   title |-> IF id % 2 = 1 THEN "News" ELSE "Tea Shop"]

\* The lists getHistory gives for the visits at the hours of `hours`: newest
\* first, ids in the order of the visits.
RECURSIVE ListOf(_)
ListOf(hours) ==
  IF hours = {} THEN <<>>
  ELSE LET t == CHOOSE x \in hours : \A y \in hours : y <= x
           id == Cardinality(hours)
       IN <<[id |-> id, url |-> PageOf(id).url, title |-> PageOf(id).title,
             visited_at |-> t]>> \o ListOf(hours \ {t})

HistoryLists == {ListOf(hours) : hours \in SUBSET VisitHours}

\* The texts typed into the search field.
SearchTexts == {"", " ", "n", "NEWS", "u1", "x"}

\* String.prototype.toLowerCase, on the letters the texts here hold in capitals.
LowerOf(c) ==
  CASE c = "N" -> "n"
    [] c = "E" -> "e"
    [] c = "W" -> "w"
    [] c = "S" -> "s"
    [] c = "T" -> "t"
    [] OTHER -> c

RECURSIVE ToLowerCase(_)
ToLowerCase(text) ==
  IF text = "" THEN ""
  ELSE LowerOf(SubSeq(text, 1, 1)) \o ToLowerCase(SubSeq(text, 2, Len(text)))

\* text.includes(part)
IncludesText(text, part) ==
  \E n \in 0..(Len(text) - Len(part)) : SubSeq(text, n + 1, n + Len(part)) = part

\* The predicate of history.filter.
MatchesQuery(item, query) ==
  \/ IncludesText(ToLowerCase(item.title), ToLowerCase(query))
  \/ IncludesText(ToLowerCase(item.url), ToLowerCase(query))

RECURSIVE FilterHistory(_, _)
FilterHistory(list, query) ==
  IF list = <<>> THEN <<>>
  ELSE (IF MatchesQuery(Head(list), query) THEN <<Head(list)>> ELSE <<>>)
       \o FilterHistory(Tail(list), query)

\* new Date(item.visited_at): the text is a UTC time without a zone.  Read as a
\* local time it is the instant `zone` hours off; an engine that does not read
\* the format gives an invalid Date, which compares false with everything.
NewDate(visitedAt) ==
  IF device.parse = "invalid" THEN [valid |-> FALSE, time |-> 0]
  ELSE [valid |-> TRUE, time |-> visitedAt - device.zone]

\* new Date(now.getFullYear(), now.getMonth(), now.getDate()): local midnight.
Today == ((device.now + device.zone) \div DayLength) * DayLength - device.zone
Yesterday == Today - DayLength
WeekAgo == Today - 7 * DayLength

\* visitDate >= bound
AtOrAfter(visitDate, bound) == visitDate.valid /\ visitDate.time >= bound

\* The bucket the forEach of organizeHistory pushes the item to.
BucketOf(item) ==
  LET visitDate == NewDate(item.visited_at)
  IN IF AtOrAfter(visitDate, Today) THEN "Today"
     ELSE IF AtOrAfter(visitDate, Yesterday) THEN "Yesterday"
     ELSE IF AtOrAfter(visitDate, WeekAgo) THEN "This Week"
     ELSE "Older"

RECURSIVE ItemsOf(_, _)
ItemsOf(list, bucket) ==
  IF list = <<>> THEN <<>>
  ELSE (IF BucketOf(Head(list)) = bucket THEN <<Head(list)>> ELSE <<>>)
       \o ItemsOf(Tail(list), bucket)

BucketTitles == <<"Today", "Yesterday", "This Week", "Older">>

RECURSIVE SectionsFrom(_, _)
SectionsFrom(list, n) ==
  IF n > Len(BucketTitles) THEN <<>>
  ELSE (IF ItemsOf(list, BucketTitles[n]) # <<>>
        THEN <<[title |-> BucketTitles[n], data |-> ItemsOf(list, BucketTitles[n])]>>
        ELSE <<>>)
       \o SectionsFrom(list, n + 1)

\* An organizeHistory that filters on every text that is not empty.
OrganizeHistoryFiltersUntrimmed(list, query) ==
  SectionsFrom(IF query # "" THEN FilterHistory(list, query) ELSE list, 1)

\* organizeHistory: what it hands to setSections.
OrganizeHistory(list, query) ==
  SectionsFrom(IF Trim(query) # "" THEN FilterHistory(list, query) ELSE list, 1)

\* loadHistory has its rows: setHistory(data), and the effect on [history,
\* searchQuery] runs organizeHistory.
SetHistory(data) ==
  /\ \A n \in 1..Len(data) : data[n].visited_at <= device.now
  /\ historyList' = data
  /\ sections' = OrganizeHistory(data, searchQuery)
  /\ UNCHANGED <<searchQuery, bookmarkList, screenPc, device>>
  /\ UNCHANGED <<dbVars, settingsVars, logVars, browserVars>>

\* The search field is edited: setSearchQuery(text), and the effect runs
\* organizeHistory.
SetSearchQuery(text) ==
  /\ searchQuery' = text
  /\ sections' = OrganizeHistory(historyList, text)
  /\ UNCHANGED <<historyList, bookmarkList, screenPc, device>>
  /\ UNCHANGED <<dbVars, settingsVars, logVars, browserVars>>

\* The history screen showing lists and searches.
OrganizeNext ==
  \/ \E data \in HistoryLists : SetHistory(data)
  \/ \E text \in SearchTexts : SetSearchQuery(text)

InitOrganize == \E d \in Devices : InitOn(d, {}, {}, {}, {}, {})

SpecOrganize == InitOrganize /\ [][OrganizeNext]_vars

\* ------------------------------------------- history and bookmarks screens
\* The lists getHistory can return from an initialized store: the first
\* HistoryLimit rows of SELECT * FROM history ORDER BY visited_at DESC.
GetHistoryRows ==
  {SubSeq(rows, 1, Min(HistoryLimit, Len(rows))) :
     rows \in NewestFirst(history, "visited_at")}

\* The lists getBookmarks can return from an initialized store.
GetBookmarksRows == NewestFirst(bookmarks, "created_at")

\* loadHistory(), up to its first await that waits: getHistory returns [] at
\* once when `db` is null, and then setHistory([]) and the effect runs
\* organizeHistory; otherwise the SELECT is issued.  (The store's clock and the
\* screen's clock each count from an origin of their own.)
LoadHistory ==
  IF ~db["historyScreen"]
    THEN /\ historyList' = <<>>
         /\ sections' = OrganizeHistory(<<>>, searchQuery)
         /\ screenPc' = [screenPc EXCEPT !["historyScreen"] = "idle"]
    ELSE /\ screenPc' = [screenPc EXCEPT !["historyScreen"] = "select"]
         /\ UNCHANGED <<historyList, sections>>

\* HistoryScreen mounts: the effect of useDatabase() starts
\* initializeDatabase(), which resolves later, and the screen's effect calls
\* loadHistory() of this first render.
MountHistoryScreen ==
  /\ screenPc["historyScreen"] = "off"
  /\ LoadHistory
  /\ UNCHANGED <<searchQuery, bookmarkList, device>>
  /\ UNCHANGED <<dbVars, settingsVars, logVars, browserVars>>

\* The SELECT of getHistory resolves: loadHistory does setHistory(data), and
\* the effect runs organizeHistory; an error is caught in getHistory, which
\* returns [].
LoadHistoryResume ==
  /\ screenPc["historyScreen"] = "select"
  /\ \E ok \in BOOLEAN :
       \E data \in (IF ok THEN GetHistoryRows ELSE {<<>>}) :
         /\ historyList' = data
         /\ sections' = OrganizeHistory(data, searchQuery)
  /\ screenPc' = [screenPc EXCEPT !["historyScreen"] = "idle"]
  /\ UNCHANGED <<searchQuery, bookmarkList, device>>
  /\ UNCHANGED <<dbVars, settingsVars, logVars, browserVars>>

\* Clear All is confirmed on the history screen: clearHistory() throws when
\* `db` is null and the handler shows an alert; otherwise its DELETE is issued.
HandleClearAllHistory ==
  /\ screenPc["historyScreen"] = "idle"
  /\ db["historyScreen"]
  /\ screenPc' = [screenPc EXCEPT !["historyScreen"] = "clear"]
  /\ UNCHANGED <<historyList, sections, searchQuery, bookmarkList, device>>
  /\ UNCHANGED <<dbVars, settingsVars, logVars, browserVars>>

\* DELETE FROM history resolves: the handler goes on to loadHistory(); an
\* error is thrown on to the handler, which shows an alert.
ClearAllHistoryResume ==
  /\ screenPc["historyScreen"] = "clear"
  /\ \E ok \in BOOLEAN :
       IF ok
         THEN /\ history' = {}
              /\ LoadHistory
         ELSE /\ screenPc' = [screenPc EXCEPT !["historyScreen"] = "idle"]
              /\ UNCHANGED <<history, historyList, sections>>
  /\ UNCHANGED <<searchQuery, bookmarkList, device>>
  /\ UNCHANGED <<db, bookmarks, nextBookmarkId, nextHistoryId, now, perSecond, calls>>
  /\ UNCHANGED <<settingsVars, logVars, browserVars>>

\* BookmarksScreen mounts: initializeDatabase() is started and the screen's
\* effect calls loadBookmarks() of this first render: getBookmarks returns []
\* at once when `db` is null, and then setBookmarks([]); otherwise the SELECT
\* is issued.
MountBookmarksScreen ==
  /\ screenPc["bookmarksScreen"] = "off"
  /\ IF ~db["bookmarksScreen"]
       THEN /\ bookmarkList' = <<>>
            /\ screenPc' = [screenPc EXCEPT !["bookmarksScreen"] = "idle"]
       ELSE /\ screenPc' = [screenPc EXCEPT !["bookmarksScreen"] = "select"]
            /\ UNCHANGED bookmarkList
  /\ UNCHANGED <<historyList, sections, searchQuery, device>>
  /\ UNCHANGED <<dbVars, settingsVars, logVars, browserVars>>

\* The SELECT of getBookmarks resolves: loadBookmarks does setBookmarks(data);
\* an error is caught in getBookmarks, which returns [].
LoadBookmarksResume ==
  /\ screenPc["bookmarksScreen"] = "select"
  /\ \E ok \in BOOLEAN :
       \E data \in (IF ok THEN GetBookmarksRows ELSE {<<>>}) : bookmarkList' = data
  /\ screenPc' = [screenPc EXCEPT !["bookmarksScreen"] = "idle"]
  /\ UNCHANGED <<historyList, sections, searchQuery, device>>
  /\ UNCHANGED <<dbVars, settingsVars, logVars, browserVars>>

\* initializeDatabase of a screen resolves; it was started by the mount.
ScreenDatabaseReady(c) ==
  /\ screenPc[c] # "off"
  /\ InitializeDatabase(c)

\* The two screens from their mount on.  Delete needs a row in the list shown,
\* and no step here issues the SELECT of getBookmarks.
ScreensNext ==
  \/ MountHistoryScreen
  \/ MountBookmarksScreen
  \/ \E c \in {"historyScreen", "bookmarksScreen"} : ScreenDatabaseReady(c)
  \/ LoadHistoryResume
  \/ HandleClearAllHistory
  \/ ClearAllHistoryResume

InitScreens ==
  \E b \in PriorBookmarks, h \in PriorHistories : InitWith(b, h, {}, {}, {})

SpecScreens == InitScreens /\ [][ScreensNext]_vars

\* What is pending is served: an open database call and a statement issued
\* resolve.  Nothing obliges the user to open a screen or to press Clear All.
SpecScreensFair ==
  /\ SpecScreens
  /\ \A c \in {"historyScreen", "bookmarksScreen"} : WF_vars(ScreenDatabaseReady(c))
  /\ WF_vars(LoadHistoryResume)
  /\ WF_vars(ClearAllHistoryResume)

\* ------------------------------------------------------ claims: page store
\* C1: when addBookmark(u, t2) looks u up in a store that holds exactly one
\* bookmark for u (the one a completed addBookmark(u, t) left), the call fails
\* with the duplicate error and the store still holds exactly that bookmark,
\* title included.  (A lookup the engine itself fails is not this case.)
C1_DuplicateRejected ==
  [][\A k \in Calls :
       ( /\ calls[k].op = "addBookmark" /\ calls[k].pc = "select"
         /\ calls'[k].pc # "select" /\ calls'[k].result # "SqlError"
         /\ Cardinality(RowsFor(bookmarks, calls[k].url)) = 1 )
       => /\ calls'[k].pc = "done"
          /\ calls'[k].result = "DuplicateEntry"
          /\ RowsFor(bookmarks', calls[k].url) = RowsFor(bookmarks, calls[k].url)]_vars

\* addBookmark(u, t1) completed, then addBookmark(u, t2) ran alone and was
\* rejected; the one bookmark for u has title t1.
C1_Witness ==
  \E j, k \in Calls, u \in BookmarkUrls :
    /\ j < k
    /\ calls[j] = [NoCall EXCEPT !.op = "addBookmark", !.url = u, !.title = "t1",
                                 !.pc = "done", !.result = "ok", !.solo = TRUE]
    /\ calls[k].op = "addBookmark" /\ calls[k].url = u /\ calls[k].title = "t2"
    /\ calls[k].pc = "done" /\ calls[k].result = "DuplicateEntry" /\ calls[k].solo
    /\ \E b \in bookmarks : RowsFor(bookmarks, u) = {b} /\ b.title = "t1"

\* C2: no two bookmark rows have the same URL, whatever the interleaving of
\* addBookmark and removeBookmark calls.
C2_BookmarkUrlUnique ==
  \A a, b \in bookmarks : a.url = b.url => a = b

\* C3: when an addToHistory(u, _) that overlapped no other call completes with
\* all its statements done, the history holds exactly one row for u, and its
\* visit timestamp is the one this visit's INSERT was given.
C3_RevisitKeepsOneRow ==
  [][\A k \in Calls :
       ( /\ calls[k].op = "addToHistory" /\ calls[k].pc = "retain" /\ calls[k].solo
         /\ calls'[k].pc = "done" /\ calls'[k].result = "ok" )
       => \E r \in history' :
            /\ RowsFor(history', calls[k].url) = {r}
            /\ r.visited_at = calls[k].stamp]_vars

\* u was visited, and visited again in a later second by a call that ran alone:
\* the DELETE of the second visit removed the first row, one row is left.
C3_Witness ==
  \E j, k \in Calls, u \in Urls :
    /\ j < k
    /\ calls[j].op = "addToHistory" /\ calls[j].url = u /\ calls[j].result = "ok"
    /\ calls[k].op = "addToHistory" /\ calls[k].url = u /\ calls[k].result = "ok"
    /\ calls[k].solo /\ calls[k].changes = 1 /\ calls[j].stamp < calls[k].stamp
    /\ \E r \in history : RowsFor(history, u) = {r} /\ r.visited_at = calls[k].stamp

\* C4: the retention statement of an addToHistory leaves at most HistoryCap rows,
\* removes rows only when there are more than HistoryCap, and every row it
\* removes is at most as recent as every row it keeps.
C4_RetentionEvictsOldest ==
  [][\A k \in Calls :
       ( /\ calls[k].op = "addToHistory" /\ calls[k].pc = "retain"
         /\ calls'[k].pc = "done" /\ calls'[k].result = "ok" )
       => /\ history' \subseteq history
          /\ Cardinality(history') = Min(HistoryCap, Cardinality(history))
          /\ \A gone \in history \ history', kept \in history' :
               gone.visited_at <= kept.visited_at]_vars

\* The history held HistoryCap distinct URLs visited in increasing timestamp
\* order, and one more URL was visited after them: exactly HistoryCap rows are
\* left and the earliest one (id 1) is absent.
C4_Witness ==
  /\ \E k \in Calls :
       /\ calls[k].op = "addToHistory" /\ calls[k].result = "ok"
       /\ calls[k].url = UrlSeq[HistoryCap + 1] /\ calls[k].changes = 0
       /\ \A j \in Calls \ {k} : calls[j].pc = "idle"
  /\ nextHistoryId = HistoryCap + 2
  /\ Cardinality(history) = HistoryCap
  /\ {r.id : r \in history} = 2..(HistoryCap + 1)
  /\ \A a, b \in history : a.id < b.id => a.visited_at < b.visited_at

\* -------------------------------------------------- claims: settings store
\* C5: the step that completes updateSettings either stores the merged object
\* (the partial spread over the caller's settings) and publishes that same
\* object, or fails to its caller with the save error and leaves the in-memory
\* settings and the stored item as they were; the in-memory settings never hold
\* the merged object of a call whose write has not succeeded.
C5_PersistThenPublish ==
  [][(op.kind = "update" /\ op.pc = "save" /\ op'.pc = "done")
       => /\ op.merged = Merge(op.base, SettingsPartial(op.partial))
          /\ IF op'.result = "ok"
               THEN /\ storedSettings' = {Stringify(op.merged)}
                    /\ settings'[Writer] = op.merged
               ELSE /\ op'.result = "SaveFailed"
                    /\ settings' = settings
                    /\ storedSettings' = storedSettings]_vars

\* An update that changes something failed at the write: the settings screen
\* still holds what it held when it called.
C5_Witness ==
  /\ op.kind = "update" /\ op.pc = "done" /\ op.result = "SaveFailed"
  /\ op.merged # op.base
  /\ settings[Writer] = op.base

\* C6 as claimed: after loadSettings the in-memory settings have exactly the
\* keys of DEFAULT_SETTINGS.
C6_LoadDropsUnknownKeys ==
  [][\A i \in SettingsUsers :
       (load[i] = "get" /\ load'[i] = "done")
       => DOMAIN settings'[i] = DOMAIN DEFAULT_SETTINGS]_vars

\* C6, amended: loadSettings spreads the stored object over the defaults: every
\* stored key is in memory with its stored value, keys of the defaults that
\* are not stored have their default, and there is no other key.  Stored keys
\* that are no default are kept.
C6_LoadSpreadsStoredOverDefaults ==
  [][\A i \in SettingsUsers :
       (load[i] = "get" /\ load'[i] = "done")
       => /\ storedSettings # {}
          /\ LET parsed == Parse(StoredText) IN
             /\ DOMAIN settings'[i] = (DOMAIN DEFAULT_SETTINGS) \cup (DOMAIN parsed)
             /\ \A k \in DOMAIN parsed : settings'[i][k] = parsed[k]
             /\ \A k \in (DOMAIN DEFAULT_SETTINGS) \ (DOMAIN parsed) :
                  settings'[i][k] = DEFAULT_SETTINGS[k]]_vars

\* A consumer that never updates settings loaded the key the settings screen
\* stored, which is no key of the defaults.
C6_Witness ==
  \E i \in SettingsUsers \ {Writer} :
    /\ load[i] = "done"
    /\ "moduleFileSupport" \in DOMAIN settings[i]
    /\ settings[i]["moduleFileSupport"]

\* C7: when an updateSettings(p) called with all settings at their defaults
\* completes successfully, a load from the stored item yields the defaults
\* overridden by exactly the fields of p.
C7_UpdateThenReload ==
  [][( /\ op.kind = "update" /\ op.pc = "save" /\ op.base = DEFAULT_SETTINGS
       /\ op'.pc = "done" /\ op'.result = "ok" )
       => /\ storedSettings' # {}
          /\ LoadedFrom(CHOOSE text \in storedSettings' : TRUE)
               = Merge(DEFAULT_SETTINGS, SettingsPartial(op.partial))]_vars

\* updateSettings({homepage: "https://example.com"}) was called on the defaults
\* and succeeded; the root layout had loaded the defaults before, the browser
\* screen loaded afterwards and holds the new homepage, the rest at its default.
C7_Witness ==
  /\ op.kind = "update" /\ op.pc = "done" /\ op.result = "ok"
  /\ op.partial = "homepage" /\ op.base = DEFAULT_SETTINGS
  /\ load["root"] = "done" /\ settings["root"] = DEFAULT_SETTINGS
  /\ load["browser"] = "done"
  /\ settings["browser"] = [DEFAULT_SETTINGS EXCEPT !.homepage = "https://example.com"]
  /\ storedSettings = {Stringify(settings["browser"])}

\* C8: when updateSettings or resetSettings completes successfully, the
\* in-memory settings of every consumer that has loaded equal the settings
\* just persisted.
C8_OneSettingsInstance ==
  [][(op.pc = "save" /\ op'.pc = "done" /\ op'.result = "ok")
       => \A i \in SettingsUsers :
            ~Loading(i) => settings'[i] = op.merged]_vars

\* ------------------------------------------- claims: activity / feedback log
\* C9 (as stated): the in-memory activity log of the recording consumer holds
\* every entry recorded so far, up to the cap, newest first.  No clear is
\* ever issued on that consumer's log, and entry t of the run is the one
\* built at millisecond t, so the log starts with the entries of milliseconds
\* logClock, logClock - 1, ...
C9_AppendOnlyNewestFirst ==
  \A n \in 1..Min(logClock, ActivityCap) :
    /\ n <= Len(activityLog[Recorder])
    /\ activityLog[Recorder][n].id = logClock - n + 1

\* C10: every activity log, in memory and as persisted, has at most
\* ActivityCap entries and every feedback log at most FeedbackCap; and when a
\* call prepends an entry, the new entry is at the head of the resulting list
\* and an entry of the list it was prepended to is left out only when the
\* result is at the cap and the entry is older than every entry kept.
C10_CapsHoldOldestDropped ==
  /\ [](/\ \A i \in LogUsers : /\ Len(activityLog[i]) <= ActivityCap
                               /\ Len(moduleFeedback[i]) <= FeedbackCap
        /\ \A text \in storedActivity : Len(text) <= ActivityCap
        /\ \A text \in storedFeedback : Len(text) <= FeedbackCap)
  /\ [][logClock' # logClock =>
          LET resumed == login.pc = "delay" /\ login'.pc = "idle"
              log == IF resumed THEN login.activityLog ELSE activityLog[Recorder]
              updatedLog == activityLog'[Recorder]
              updatedFeedback == moduleFeedback'[Recorder]
          IN /\ updatedLog[1].id = logClock'
             /\ \A m \in 1..Len(log) :
                  (\A n \in 1..Len(updatedLog) : updatedLog[n] # log[m])
                  => /\ Len(updatedLog) = ActivityCap
                     /\ \A n \in 1..Len(updatedLog) : log[m].id < updatedLog[n].id
             /\ resumed =>
                  /\ updatedFeedback[1].timestamp = logClock'
                  /\ \A m \in 1..Len(login.moduleFeedback) :
                       (\A n \in 1..Len(updatedFeedback) :
                          updatedFeedback[n] # login.moduleFeedback[m])
                       => /\ Len(updatedFeedback) = FeedbackCap
                          /\ \A n \in 1..Len(updatedFeedback) :
                               login.moduleFeedback[m].timestamp
                                 < updatedFeedback[n].timestamp]_vars

\* Both logs were at their cap when the login simulation recorded its result:
\* the result entries are at the heads, the oldest entries are gone, and the
\* truncated activity list is the one persisted.
C10_Witness ==
  /\ login.result # "none"
  /\ login.pc = "idle"
  /\ Len(login.activityLog) = ActivityCap
  /\ Len(login.moduleFeedback) = FeedbackCap
  /\ activityLog[Recorder][1].id = logClock
  /\ moduleFeedback[Recorder][1].timestamp = logClock
  /\ storedActivity = {StringifyActivityLog(activityLog[Recorder])}
  /\ \A n \in 1..Len(activityLog[Recorder]) :
       activityLog[Recorder][n] # login.activityLog[ActivityCap]

\* C11: simulateKAiSurfLogin suspends once, on its timer, and the step that
\* resumes it is the step in which it returns.  In that step, whichever the
\* outcome, exactly one activity entry (the result, of that outcome) is put
\* before the list the call holds and exactly one feedback entry (SUCCESS or
\* ERROR accordingly) before the feedback list it holds, and one setItem is
\* issued for each.
C11_LoginRecordsOneOfEach ==
  [][login.pc = "delay" /\ login' # login =>
       LET success == login'.result = "success"
           updatedLog == activityLog'[Recorder]
           updatedFeedback == moduleFeedback'[Recorder]
       IN /\ login'.pc = "idle"
          /\ login'.result \in {"success", "failure"}
          /\ logClock' = logClock + 1
          /\ updatedLog # <<>>
          /\ updatedFeedback # <<>>
          /\ updatedLog[1] =
               ActivityEntry(logClock',
                 IF success THEN "KAISURF_LOGIN_SUCCESS" ELSE "KAISURF_LOGIN_FAILURE",
                 "KAiSurf")
          /\ Tail(updatedLog) = SubSeq(login.activityLog, 1, Len(updatedLog) - 1)
          /\ updatedFeedback[1] =
               FeedbackEntry(logClock', IF success THEN "SUCCESS" ELSE "ERROR")
          /\ Tail(updatedFeedback) = SubSeq(login.moduleFeedback, 1, Len(updatedFeedback) - 1)
          /\ storageQueue' = storageQueue \o
               <<Request("set", "activity", Recorder, StringifyActivityLog(updatedLog)),
                 Request("set", "feedback", Recorder, StringifyFeedbackLog(updatedFeedback))>>]_vars

\* Two logins have returned, the first with success and the second with
\* failure: the log holds the two result entries and the feedback list the
\* ERROR entry of the second.
C11_Witness ==
  /\ login.pc = "idle"
  /\ login.result = "failure"
  /\ Len(activityLog[Recorder]) = 2
  /\ activityLog[Recorder][1].activity_type = "KAISURF_LOGIN_FAILURE"
  /\ activityLog[Recorder][2].activity_type = "KAISURF_LOGIN_SUCCESS"
  /\ moduleFeedback[Recorder][1].feedback_type = "ERROR"

\* C12: logActivity and addModuleFeedback set the in-memory list, with the new
\* entry at its head, before they issue the setItem (C10 covers that step).
\* When the setItem then fails, the step in which the failure arrives changes
\* neither in-memory list, so the entry stays where the record put it, nothing
\* is stored, and the promise of the record operation is fulfilled, not
\* rejected.
C12_FailedPersistKeepsEntry ==
  [][( /\ storageQueue # <<>>
       /\ Head(storageQueue).kind = "set"
       /\ storageQueue' = Tail(storageQueue)
       /\ ~lastSettled'.ok )
     => /\ activityLog' = activityLog
        /\ moduleFeedback' = moduleFeedback
        /\ UNCHANGED <<storedActivity, storedFeedback>>
        /\ lastSettled'.promise = "fulfilled"]_vars

\* The write of the only entry recorded so far has failed: the entry heads the
\* in-memory log and nothing is stored.
C12_Witness ==
  /\ lastSettled.kind = "set"
  /\ lastSettled.key = "activity"
  /\ ~lastSettled.ok
  /\ logClock = 1
  /\ storageQueue = <<>>
  /\ activityLog[Recorder][1].id = 1
  /\ storedActivity = {}

\* ------------------------------------------- claims: page store, errors
\* A call of the page store ends with result "ok", "skipped" or "swallowed"
\* when it returns to its caller; every other result is an error thrown.
\*
\* C13: an addToHistory call never ends with an error: it returns when `db` is
\* null ("skipped"), when a statement fails ("swallowed") and when all three
\* succeed ("ok"); and a call made while `db` is null returns at once and
\* leaves both tables as they are.
C13_AddToHistoryNeverFails ==
  /\ [](\A k \in Calls :
          calls[k].op = "addToHistory" =>
            calls[k].result \in {"none", "ok", "skipped", "swallowed"})
  /\ [][\A k \in Calls :
          /\ ( /\ calls[k].pc = "idle"
               /\ calls'[k].op = "addToHistory"
               /\ ~db["browser"] )
             => /\ calls'[k].pc = "done"
                /\ calls'[k].result = "skipped"
                /\ UNCHANGED <<history, bookmarks, nextHistoryId>>
          /\ ( /\ calls[k].op = "addToHistory"
               /\ calls[k].pc \in {"delete", "insert", "retain"}
               /\ calls'[k].pc = "done" )
             => calls'[k].result \in {"ok", "swallowed"}]_vars

\* One call was made before initializeDatabase had resolved and one had a
\* statement fail after it: both have returned.
C13_Witness ==
  /\ calls[1].op = "addToHistory" /\ calls[1].result = "skipped"
  /\ calls[2].op = "addToHistory" /\ calls[2].result = "swallowed"

\* C14: removeHistoryItem(id) and clearHistory() called while `db` is null end
\* at once with the error 'Database not initialized' and leave the history
\* table as it is.
C14_HistoryWritesNeedStore ==
  [][\A k \in Calls :
       ( /\ calls[k].pc = "idle"
         /\ calls'[k].op \in {"removeHistoryItem", "clearHistory"}
         /\ ~db["historyScreen"] )
       => /\ calls'[k].pc = "done"
          /\ calls'[k].result = "NotInitialized"
          /\ history' = history]_vars

\* Both were called before initializeDatabase had resolved, on a table with
\* rows: both threw and the rows are there.
C14_Witness ==
  /\ ~db["historyScreen"]
  /\ calls[1].op = "clearHistory" /\ calls[1].result = "NotInitialized"
  /\ calls[2].op = "removeHistoryItem" /\ calls[2].result = "NotInitialized"
  /\ \E r \in history : r.id = calls[2].id

\* C15: a getBookmarks call never ends with an error.  Called while `db` is
\* null it returns [] at once; when its query fails it returns []; otherwise
\* it returns every bookmark row once, none before a row created later.
C15_GetBookmarksNeverFails ==
  /\ [](\A k \in Calls :
          calls[k].op = "getBookmarks" =>
            calls[k].result \in {"none", "ok", "skipped", "swallowed"})
  /\ [][\A k \in Calls :
          /\ ( /\ calls[k].pc = "idle"
               /\ calls'[k].op = "getBookmarks"
               /\ ~db["bookmarksScreen"] )
             => /\ calls'[k].pc = "done"
                /\ calls'[k].result = "skipped"
                /\ calls'[k].rows = <<>>
          /\ ( /\ calls[k].op = "getBookmarks"
               /\ calls[k].pc = "select"
               /\ calls'[k].pc = "done" )
             => LET rows == calls'[k].rows IN
                IF calls'[k].result = "ok"
                THEN /\ Len(rows) = Cardinality(bookmarks)
                     /\ {rows[n] : n \in 1..Len(rows)} = bookmarks
                     /\ \A m, n \in 1..Len(rows) :
                          m < n => rows[m].created_at >= rows[n].created_at
                ELSE calls'[k].result = "swallowed" /\ rows = <<>>]_vars

\* A call has returned two bookmarks created a second apart, the later first.
C15_Witness ==
  \E k \in Calls :
    /\ calls[k].op = "getBookmarks"
    /\ calls[k].result = "ok"
    /\ Len(calls[k].rows) = 2
    /\ calls[k].rows[1].created_at > calls[k].rows[2].created_at

\* C16: the only errors of removeBookmark are `db` being null and the DELETE
\* statement failing: a DELETE that finds no row with the id is no error.  A
\* removeBookmark(id) that succeeds leaves exactly the rows with another id,
\* so on a table without the id it changes nothing; and of two successful
\* removeBookmark(id) at most one removes a row, after which no bookmark has
\* the id again (an id is not given to a later bookmark).
C16_RemoveBookmarkIdempotent ==
  /\ [][\A k \in Calls :
          ( /\ calls[k].op = "removeBookmark"
            /\ calls[k].pc = "delete"
            /\ calls'[k].pc = "done" )
          => /\ calls'[k].result \in {"ok", "SqlError"}
             /\ calls'[k].result = "ok" =>
                  /\ bookmarks' = {r \in bookmarks : r.id # calls[k].id}
                  /\ (\A r \in bookmarks : r.id # calls[k].id) => bookmarks' = bookmarks
             /\ calls'[k].result = "SqlError" => bookmarks' = bookmarks]_vars
  /\ [](\A j, k \in Calls :
          ( /\ j # k
            /\ calls[j].op = "removeBookmark" /\ calls[j].result = "ok"
            /\ calls[k].op = "removeBookmark" /\ calls[k].result = "ok"
            /\ calls[j].id = calls[k].id )
          => /\ calls[j].changes + calls[k].changes <= 1
             /\ calls[j].changes + calls[k].changes = 1
                  => \A r \in bookmarks : r.id # calls[k].id)

\* removeBookmark(1) ran twice on a table that held bookmark 1: the first call
\* removed the row, the second removed nothing, both returned.
C16_Witness ==
  /\ calls[1].op = "removeBookmark" /\ calls[1].result = "ok" /\ calls[1].changes = 1
  /\ calls[2].op = "removeBookmark" /\ calls[2].result = "ok" /\ calls[2].changes = 0
  /\ calls[1].id = calls[2].id

\* C17: loadSettings writes to storage only when it read no blob, and then the
\* persisted blob and the in-memory settings of the loading consumer are the
\* defaults; when the read, the parse or the save of the defaults fails, the
\* in-memory settings become the defaults and storage is left as it was.
C17_LoadWritesDefaultsOnlyWhenAbsent ==
  [][\A i \in SettingsUsers :
       /\ (load'[i] # load[i] /\ storedSettings' # storedSettings)
            => /\ load[i] = "saveDefaults"
               /\ storedSettings' = {Stringify(DEFAULT_SETTINGS)}
               /\ settings'[i] = DEFAULT_SETTINGS
       /\ (load[i] = "get" /\ load'[i] = "saveDefaults") => storedSettings = {}
       /\ (load[i] = "saveDefaults" /\ load'[i] = "done")
            => /\ storedSettings' = {Stringify(DEFAULT_SETTINGS)}
               /\ settings'[i] = DEFAULT_SETTINGS
       /\ (load[i] # "fellBack" /\ load'[i] = "fellBack")
            => /\ settings'[i] = DEFAULT_SETTINGS
               /\ storedSettings' = storedSettings]_vars

\* C18: when clearActivityLog (resp. clearModuleFeedback) completes, its
\* removeItem having been the only storage request in flight from the call to
\* its completion and no login in progress, the in-memory log and the persisted
\* log for that key are empty.
C18_ClearEmptiesMemoryAndStorage ==
  [][( /\ Len(storageQueue) = 1
       /\ Head(storageQueue).kind = "remove"
       /\ Head(storageQueue).alone
       /\ login.pc = "idle"
       /\ lastSettled' = Settled(Head(storageQueue), lastSettled'.ok, "fulfilled")
       /\ storageQueue' # storageQueue )
     => IF Head(storageQueue).key = "activity"
          THEN /\ storedActivity' = {}
               /\ \A i \in LogUsers : activityLog'[i] = <<>>
          ELSE /\ storedFeedback' = {}
               /\ \A i \in LogUsers : moduleFeedback'[i] = <<>>]_vars

\* ----------------------------------------------------- claims: URL bar
\* decodeURIComponent, on the escapes of EscapeOf.
UnescapeOf(code) ==
  CASE code = "%20" -> " "
    [] code = "%2F" -> "/"
    [] code = "%3A" -> ":"
    [] OTHER -> "%"

RECURSIVE DecodeURIComponent(_)
DecodeURIComponent(text) ==
  IF text = "" THEN ""
  ELSE IF SubSeq(text, 1, 1) = "%" /\ Len(text) >= 3
    THEN UnescapeOf(SubSeq(text, 1, 3)) \o DecodeURIComponent(SubSeq(text, 4, Len(text)))
    ELSE SubSeq(text, 1, 1) \o DecodeURIComponent(SubSeq(text, 2, Len(text)))

SearchUrl == "https://www.google.com/search?q="

\* C19: a submitted text that trims to a non-empty url is navigated to as
\* follows: unchanged when it starts with http:// or https://; as 'https://' +
\* url when it has no such start, has a dot and has no space; in every other
\* case as the search URL whose q parameter is the URL-encoded url: the
\* parameter holds no space, ':' or '/' and decodes to url.
C19_UrlNormalization ==
  [][( /\ logClock' = logClock + 1
       /\ activityLog'[Recorder] # <<>>
       /\ Head(activityLog'[Recorder]).activity_type = "NAVIGATION" )
     => LET url == Trim(urlInput)
            scheme == StartsWith(url, "http://") \/ StartsWith(url, "https://")
            domain == Includes(url, ".") /\ ~Includes(url, " ")
        IN /\ url # ""
           /\ injected' = "window.location.href = '" \o currentUrl' \o "';"
           /\ IF scheme THEN currentUrl' = url
              ELSE IF domain THEN currentUrl' = "https://" \o url
              ELSE /\ StartsWith(currentUrl', SearchUrl)
                   /\ LET q == SubSeq(currentUrl', Len(SearchUrl) + 1, Len(currentUrl'))
                      IN /\ ~Includes(q, " ")
                         /\ ~Includes(q, ":")
                         /\ ~Includes(q, "/")
                         /\ DecodeURIComponent(q) = url]_vars

\* A text with the scheme in capitals, a space and a dot was submitted and
\* went to the search engine, escaped.
C19_Witness ==
  /\ currentUrl = SearchUrl \o "HTTP%3A%2F%2F%20."
  /\ urlInput = currentUrl
  /\ activityLog[Recorder] # <<>>
  /\ Head(activityLog[Recorder]).activity_type = "NAVIGATION"

\* ------------------------------------------- claims: navigation states
\* The page-store calls a step begins.
CallsBegun == {k \in Calls : calls[k].pc = "idle" /\ calls'[k].pc # "idle"}

\* C20: every navigation-state change the WebView reports with a non-empty
\* title and loading = false begins exactly one addToHistory call, for the
\* reported URL and title, and records exactly one activity entry (a PAGE_LOAD
\* entry, with one setItem issued); every other report begins no page-store
\* call and leaves the activity log and its storage requests as they were.
C20_OneHistoryWriteOneLogEntry ==
  [][(reported'.n = reported.n + 1)
     => IF reported'.title \notin {"undefined", ""} /\ ~reported'.loading
          THEN /\ Cardinality(CallsBegun) = 1
               /\ \A k \in CallsBegun : /\ calls'[k].op = "addToHistory"
                                        /\ calls'[k].url = currentUrl'
                                        /\ calls'[k].title = reported'.title
               /\ \A k \in Calls \ CallsBegun : calls'[k].op = calls[k].op
               /\ logClock' = logClock + 1
               /\ Len(storageQueue') = Len(storageQueue) + 1
               /\ activityLog'[Recorder] # <<>>
               /\ Head(activityLog'[Recorder]) =
                    ActivityEntry(logClock', "PAGE_LOAD", "undefined")
               /\ Len(activityLog'[Recorder]) =
                    Min(Len(activityLog[Recorder]) + 1, ActivityCap)
          ELSE /\ CallsBegun = {}
               /\ UNCHANGED <<calls, history, activityLog, storageQueue, logClock>>]_vars

\* Two states were reported, one of a page still loading and one of a page
\* loaded with its title: one addToHistory call was made and one entry built.
C20_Witness ==
  /\ reported.n = 2
  /\ reported.title = "t1" /\ ~reported.loading
  /\ calls[1].op = "addToHistory" /\ calls[1].title = "t1"
  /\ calls[2].op = "none"
  /\ logClock = 1
  /\ Len(activityLog[Recorder]) = 1

\* ------------------------------------------------ claims: history sections
\* The rows of all sections, in the order of the sections.
RECURSIVE RowsOfSections(_)
RowsOfSections(secs) ==
  IF secs = <<>> THEN <<>> ELSE Head(secs).data \o RowsOfSections(Tail(secs))

\* The instant of the midnight that began the device's local day.
LocalMidnight ==
  CHOOSE m \in (device.now - DayLength + 1)..device.now :
    (m + device.zone) % DayLength = 0

\* The bucket a visit at UTC hour t belongs to on the device.
DueBucket(t) ==
  IF t >= LocalMidnight THEN "Today"
  ELSE IF t >= LocalMidnight - DayLength THEN "Yesterday"
  ELSE IF t >= LocalMidnight - 7 * DayLength THEN "This Week"
  ELSE "Older"

\* The place of a bucket title in the order Today, Yesterday, This Week, Older.
PlaceOf(title) == CHOOSE n \in 1..Len(BucketTitles) : BucketTitles[n] = title

\* C21: the sections hold every row of the list (with an empty search text)
\* exactly once, each row in the section of the bucket its visit time belongs
\* to: at or after local midnight Today, within the 24 hours before it
\* Yesterday, from 7 days before it up to 24 hours before it This Week,
\* earlier Older; and the sections come in that order.
C21_OneBucketByVisitTime ==
  Trim(searchQuery) = ""
  => /\ \A n \in 1..Len(historyList) :
          Cardinality({m \in 1..Len(RowsOfSections(sections)) :
                         RowsOfSections(sections)[m] = historyList[n]}) = 1
     /\ Len(RowsOfSections(sections)) = Len(historyList)
     /\ \A n \in 1..Len(sections) :
          /\ sections[n].title \in {BucketTitles[b] : b \in 1..Len(BucketTitles)}
          /\ \A m \in 1..Len(sections[n].data) :
               sections[n].title = DueBucket(sections[n].data[m].visited_at)
     /\ \A m, n \in 1..Len(sections) :
          m < n => PlaceOf(sections[m].title) < PlaceOf(sections[n].title)

\* text holds part somewhere, capitals and small letters taken as equal.
ContainsIgnoringCase(text, part) ==
  \E n \in 0..(Len(text) - Len(part)) :
    \A k \in 1..Len(part) :
      LowerOf(SubSeq(text, n + k, n + k)) = LowerOf(SubSeq(part, k, k))

\* The rows of the list whose title or URL holds the search text.
RowsHolding(list, query) ==
  {n \in 1..Len(list) :
     \/ ContainsIgnoringCase(list[n].title, query)
     \/ ContainsIgnoringCase(list[n].url, query)}

\* The sections show the rows of the list at the places `shown`, each once and
\* in the order of the list within the sections' rows.
SectionsShow(shown) ==
  /\ Len(RowsOfSections(sections)) = Cardinality(shown)
  /\ \A n \in shown :
       \E m \in 1..Len(RowsOfSections(sections)) :
         RowsOfSections(sections)[m] = historyList[n]

\* C26 as stated: whenever the search text is not empty the sections hold
\* exactly the rows whose title or URL holds the text, capitals aside, and no
\* section is without rows.
C26_FiltersWheneverNonEmpty ==
  /\ searchQuery # "" => SectionsShow(RowsHolding(historyList, searchQuery))
  /\ \A n \in 1..Len(sections) : sections[n].data # <<>>

\* C26: whenever the search text is not empty after trimming white space the
\* sections hold exactly the rows whose title or URL holds the text as typed,
\* capitals aside; for every other text they hold every row; and no section is
\* without rows.
C26_FiltersWhenNonBlank ==
  /\ Trim(searchQuery) # "" => SectionsShow(RowsHolding(historyList, searchQuery))
  /\ Trim(searchQuery) = "" => SectionsShow(1..Len(historyList))
  /\ \A n \in 1..Len(sections) : sections[n].data # <<>>

\* A search in capitals kept the two "News" rows of a list of three, and a
\* bucket that lost its only row is not shown.
C26_Witness ==
  /\ searchQuery = "NEWS"
  /\ Len(historyList) = 3
  /\ Len(RowsOfSections(sections)) = 2
  /\ \A m \in 1..2 : RowsOfSections(sections)[m].title = "News"
  /\ \A n \in 1..Len(sections) : sections[n].data # <<>>

\* ---------------------------------------------- claims: browser and settings
\* C22: while privateBrowsing is enabled in the settings the browser screen
\* holds, a navigation-state change starts no addToHistory and no row is
\* written to the history table.
C22_NoHistoryWhilePrivate ==
  [][settings["browser"].privateBrowsing
       => /\ reported' # reported => calls' = calls
          /\ history' \subseteq history]_vars

\* C23: with a settings item persisted, the URL the browser screen has loaded
\* once it is mounted, before any navigation is reported, is the homepage of
\* that item.
C23_FirstUrlIsHomepage ==
  (load["browser"] # "off" /\ reported.n = 0 /\ storedSettings # {})
    => currentUrl = Parse(StoredText).homepage

\* ------------------------------------------------- claims: log, order of steps
\* A step in which a record operation builds its entry: every entry takes a
\* new millisecond of the clock.
Records == logClock' = logClock + 1

\* The step has issued a setItem for `key` with the text of `log`.
Issued(key, text) ==
  \E n \in (Len(storageQueue) + 1)..Len(storageQueue') :
    storageQueue'[n] = Request("set", key, Recorder, text)

\* C24 as stated: the in-memory state is set only after the list has been
\* persisted, so a step that puts a new entry at the head of the in-memory
\* activity log finds the entry at the head of the persisted log.
C24_PersistThenMemory ==
  [][(Records /\ activityLog'[Recorder] # activityLog[Recorder])
       => \E text \in storedActivity :
            IF text = <<>> THEN FALSE
            ELSE ParseActivity(text[1]).id = logClock']_vars

\* C24: a record operation builds its entry, prepends it, truncates to the
\* cap, sets the in-memory state and only then issues the setItem for the
\* truncated list: the step that records leaves the persisted logs as they
\* are, sets the in-memory list to a list within the cap headed by the new
\* entry and issues a setItem with the text of that list; and the step in
\* which the setItem is served writes that text and changes no in-memory list.
C24_MemoryThenPersist ==
  /\ [][Records
         => /\ UNCHANGED <<storedActivity, storedFeedback>>
            /\ IF activityLog'[Recorder] = <<>> THEN FALSE
               ELSE /\ activityLog'[Recorder][1].id = logClock'
                    /\ Len(activityLog'[Recorder]) <= ActivityCap
            /\ Issued("activity", StringifyActivityLog(activityLog'[Recorder]))
            /\ moduleFeedback' # moduleFeedback
                 => /\ IF moduleFeedback'[Recorder] = <<>> THEN FALSE
                       ELSE /\ moduleFeedback'[Recorder][1].timestamp = logClock'
                            /\ Len(moduleFeedback'[Recorder]) <= FeedbackCap
                    /\ Issued("feedback", StringifyFeedbackLog(moduleFeedback'[Recorder]))]_vars
  /\ [][(IF storageQueue = <<>> THEN FALSE
         ELSE /\ Head(storageQueue).kind = "set"
              /\ storageQueue' = Tail(storageQueue)
              /\ lastSettled'.ok)
         => /\ UNCHANGED <<activityLog, moduleFeedback>>
            /\ IF Head(storageQueue).key = "activity"
                 THEN storedActivity' = {Head(storageQueue).text}
                 ELSE storedFeedback' = {Head(storageQueue).text}]_vars

\* An entry has been recorded and heads the in-memory log while its setItem is
\* still to be served and the persisted log does not hold it.
C24_Witness ==
  /\ logClock >= 1
  /\ activityLog[Recorder] # <<>>
  /\ activityLog[Recorder][1].id = logClock
  /\ storageQueue # <<>>
  /\ storageQueue[Len(storageQueue)] =
       Request("set", "activity", Recorder, StringifyActivityLog(activityLog[Recorder]))
  /\ \A text \in storedActivity : text = <<>> \/ ParseActivity(text[1]).id # logClock

\* ------------------------------------------- claims: page store, one row per URL
\* C25: in every state, overlapping addToHistory calls for one URL included,
\* the history table holds at most one row per URL.
C25_OneHistoryRowPerUrl ==
  \A r1, r2 \in history : r1.url = r2.url => r1 = r2

\* ------------------------------------------------ claims: screens' lists
\* C27: once the history (resp. bookmarks) screen is mounted and its page
\* store is initialized with rows stored, the list the screen holds is
\* eventually a result of getHistory (resp. getBookmarks).
C27_ScreenListsCatchUp ==
  /\ (screenPc["historyScreen"] # "off" /\ db["historyScreen"] /\ history # {})
       ~> (historyList \in GetHistoryRows)
  /\ (screenPc["bookmarksScreen"] # "off" /\ db["bookmarksScreen"] /\ bookmarks # {})
       ~> (bookmarkList \in GetBookmarksRows)

\* ------------------------------------------------ claims: log, clear and load
\* The entries of the list a setItem request carries.
EntriesOf(r) == {ParseActivityLog(r.text)[n] : n \in 1..Len(r.text)}

\* C28: when clearActivityLog has completed on the settings screen (its
\* removeItem, the request served last, succeeded), a logActivity of the
\* browser screen persists a list without the entries of before the clear: the
\* setItem it issues carries no entry recorded in an earlier run.
C28_ClearedEntriesStayCleared ==
  [][( /\ lastSettled.kind = "remove"
       /\ lastSettled.key = "activity"
       /\ lastSettled.who = Clearer
       /\ lastSettled.ok
       /\ Records )
     => \A n \in (Len(storageQueue) + 1)..Len(storageQueue') :
          storageQueue'[n].key = "activity"
            => \A e \in EntriesOf(storageQueue'[n]) : e.id >= 1]_vars

\* C29: the browser screen has recorded one entry, the write of its list was
\* served last and succeeded, its loads are done, nothing is pending, and no
\* clear and no login took part: then the in-memory log is the persisted log
\* and holds the new entry, whether or not the logActivity overlapped the
\* initial loadActivityLog.
C29_LoadAndRecordAgree ==
  ( /\ logMounted[Recorder]
    /\ ~logMounted[Clearer]
    /\ storageQueue = <<>>
    /\ login.pc = "idle"
    /\ login.result = "none"
    /\ logClock = 1
    /\ lastSettled.kind = "set"
    /\ lastSettled.ok )
  => /\ storedActivity = {StringifyActivityLog(activityLog[Recorder])}
     /\ \E n \in 1..Len(activityLog[Recorder]) : activityLog[Recorder][n].id = 1

\* ------------------------------------------------ claims: settings, update
\* C30: when updateSettings(partial) completes with its save done, every field
\* persisted before the save that is not a field of partial is persisted with
\* the same value after it, also when the call was made before the initial
\* loadSettings had resolved.
C30_UpdateKeepsOtherFields ==
  [][( /\ op.kind = "update"
       /\ op.pc = "save"
       /\ op'.pc = "done"
       /\ op'.result = "ok"
       /\ storedSettings # {} )
     => \A k \in DOMAIN Parse(StoredText) \ DOMAIN SettingsPartial(op.partial) :
          /\ k \in DOMAIN Parse(StoredText')
          /\ Parse(StoredText')[k] = Parse(StoredText)[k]]_vars

====
